---- MODULE Spec2Model ----
(***************************************************************************)
(* Accessibility tree engine of uucidl/srfirst.                            *)
(*                                                                         *)
(* Two programs share the engine's design:                                 *)
(*   - SRFirst  (src/Sources/SRFirstMain.cpp): one describe pass at        *)
(*     start-up, navigation, focus, a text-range engine.                   *)
(*   - TodoApp  (src/Sources/TodoAppMain.cpp): the tree is rebuilt by      *)
(*     main_update on every key event and on every client SetFocus.        *)
(*                                                                         *)
(* Functions of the source are operators on a machine record               *)
(*    m = [ui |-> <the g_ui global>, fingers |-> <statics of ui_get_index>,*)
(*         aborted |-> <a VERIFY failed: std::exit(1)>, ret |-> <result>]  *)
(* Array indexes are 0-based as in the source (see At).                    *)
(***************************************************************************)
EXTENDS Integers, Sequences, FiniteSets, TLC

VARIABLES
  g_ui,      \* the global Ui / UiTree aggregate
  fingers,   \* function statics of ui_get_index: fingers.id, fingers.index, next
  g_root_provider, \* SRFirst: TRUE once WM_GETOBJECT created the RootProvider
  show_content, \* TodoApp: the static of main_update
  client_ids,   \* TodoApp: the ids of the element providers the client holds
  aborted,   \* TRUE once a VERIFY failed (the process has exited)
  ub,        \* TRUE once the program read a vector out of its bounds
  pc,        \* "describe" (SRFirst inside ui_describe), "run" (SRFirst message
             \* loop), "todo" (TodoApp message loop), "quit" (window destroyed)
  last,      \* the last request handled and what it returned
  range      \* SRFirst: the text range provider the client holds

vars == <<g_ui, fingers, g_root_provider, show_content, client_ids, aborted, ub, pc, last,
         range>>

----------------------------------------------------------------------------
(* Bounds of the model *)

MaxNodes == 3       \* a describe pass appends at most this many nodes
IdBits == 5         \* width of UiTree::Id in the model (64 in the source)

----------------------------------------------------------------------------
(* Sequences with 0-based indexes *)

At(seq, i) == seq[i + 1]

size(seq) == Len(seq)

SetAt(seq, i, v) == [seq EXCEPT ![i + 1] = v]

Indexes(seq) == 0 .. (Len(seq) - 1)

\* std::find(first, last, value) over [from, size): the first index holding
\* value, or size when there is none.
FindFwd(seq, from, value) ==
  LET hits == {i \in from .. (Len(seq) - 1) : At(seq, i) = value}
  IN IF hits = {} THEN Len(seq) ELSE CHOOSE i \in hits : \A j \in hits : i <= j

\* std::find over reverse iterators: the last index below `below` holding
\* value, or -1 (rend) when there is none.
FindBwdNearest(seq, below, value) == IF below > 0 THEN below - 1 ELSE -1

FindBwd(seq, below, value) ==
  LET hits == {i \in 0 .. (below - 1) : At(seq, i) = value}
  IN IF hits = {} THEN -1 ELSE CHOOSE i \in hits : \A j \in hits : i >= j

----------------------------------------------------------------------------
(* Identity generator *)

IdLimit == 2 ^ IdBits

\* UiTree::Id(-1), the invalid id
InvalidId == IdLimit - 1

NullPtr == -1       \* a null provider pointer handed to the client

valid_id_nonzero(id) == 0 < id

valid_id(id) == 0 < id /\ id < InvalidId

\* wyhash over the bytes of the name, reduced to the model's id width: a
\* deterministic, seeded, multiplicative hash that can collide.
RECURSIVE hashBytes(_, _)
hashBytes(bytes, h) ==
  IF bytes = <<>> THEN h
  ELSE hashBytes(Tail(bytes), (h * 3 + Head(bytes)) % IdLimit)

hash(name) == hashBytes(name, 0)

\* wyhash64(A, B): mixes two words by multiplication.
wyhash64(A, B) == ((A + 1) * (2 * B + 1) + B) % IdLimit

----------------------------------------------------------------------------
(* The string literals of the two programs, over a two-letter alphabet *)

Main == <<2, 2, 1>>                 \* L"Main"
FirstParagraph == <<1, 2, 1>>       \* L"This is the first paragraph."
HelloDreamer == <<2, 1>>            \* L"Hello, Dreamer of dreams."
YetAnotherParagraph == <<1, 1, 2>>  \* L"Yet another paragraph"
MinimizeApplication == <<2, 2, 2>>  \* L"Minimize Application"
CloseApplication == <<1, 2>>        \* L"Close Application"
ContentToggle == <<1, 1>>           \* L"Content Toggle"
HideContent == <<1>>                \* L"Hide Content"
ShowContent == <<2>>                \* L"Show Content"
LoremIpsum == <<1, 2>>              \* L"Lorem ipsum..."
Done == <<2, 1>>                    \* L"Done"
YouMayClose == <<2, 2>>             \* L"You may close this app with the next button."
CloseApplicationDot == <<1, 1, 2>>  \* L"Close application."

----------------------------------------------------------------------------
(* Element types, UiTree::Type *)

kNone == "kNone"
kText == "kText"
kDocument == "kDocument"
kButton == "kButton"
kPane == "kPane"

----------------------------------------------------------------------------
(* VERIFY: a failed check logs and calls std::exit(1) *)

Abort(m) == [m EXCEPT !.aborted = TRUE]

\* an out-of-bounds read of a std::vector
Undefined(m) == [m EXCEPT !.ub = TRUE]

Halted(m) == m.aborted \/ m.ub

\* Statements run one after the other: v is evaluated, once, and F is applied
\* to its value.
Then(v, F(_)) == CHOOSE r \in {F(x) : x \in {v}} : TRUE

Ret(m, v) == [m EXCEPT !.ret = v]

----------------------------------------------------------------------------
(* SRFirst: lookup of a node's index *)

LinearScan(node_ids, id) == FindFwd(node_ids, 0, id)

ui_get_index(m, id) ==
  IF m.aborted THEN m
  ELSE IF ~valid_id(id) THEN Abort(m)
  ELSE IF id = m.fingers.id[1] THEN Ret(m, m.fingers.index[1])
  ELSE IF id = m.fingers.id[2] THEN Ret(m, m.fingers.index[2])
  ELSE LET index == LinearScan(m.ui.node_ids, id)
           slot == m.fingers.next + 1
       IN IF ~(index < size(m.ui.node_ids)) THEN Abort(m)
          ELSE [m EXCEPT !.fingers.id[slot] = id,
                         !.fingers.index[slot] = index,
                         !.fingers.next = (m.fingers.next + 1) % 2,
                         !.ret = index]

exists_id(m, id) ==
  valid_id(id) /\ \E i \in Indexes(m.ui.node_ids) : At(m.ui.node_ids, i) = id

----------------------------------------------------------------------------
(* SRFirst: tree builder *)

\* struct RECT; RECT(0, 0, 0, 0) is the value-initialised one, {}
RECT(left, top, right, bottom) ==
  [left |-> left, top |-> top, right |-> right, bottom |-> bottom]

\* a loop that adds node_len to the parent only
AddTextLenToParent(m, parent_id, node_len) ==
  IF m.aborted \/ parent_id = 0 THEN m
  ELSE Then(ui_get_index(m, parent_id), LAMBDA m1 :
         IF m1.aborted THEN m1
         ELSE [m1 EXCEPT !.ui.node_text_len = SetAt(@, m1.ret, At(@, m1.ret) + node_len)])

\* the loop of ui_named_element that adds node_len to every ancestor
RECURSIVE AddTextLenToAncestors(_, _, _)
AddTextLenToAncestors(m, parent_id, node_len) ==
  IF m.aborted \/ parent_id = 0 THEN m
  ELSE Then(ui_get_index(m, parent_id), LAMBDA m1 :
         IF m1.aborted THEN m1
         ELSE LET parent_index == m1.ret
                  m2 == [m1 EXCEPT !.ui.node_text_len[parent_index + 1] = @ + node_len]
              IN AddTextLenToAncestors(m2, At(m2.ui.node_parent, parent_index), node_len))

ui_named_element(m, name, type) ==
  IF m.aborted THEN m
  ELSE
  LET index == size(m.ui.node_ids)
      depth == m.ui.depth_for_adding_element
      parent_depth == depth - 1
      parent_index == FindBwd(m.ui.node_depth, index, parent_depth)
  IN IF depth # 0 /\ parent_index = -1 THEN Abort(m)
     ELSE
     LET parent_id == IF depth = 0 THEN 0 ELSE At(m.ui.node_ids, parent_index)
         id == wyhash64(hash(name), parent_id)
     IN IF ~valid_id(id) THEN Abort(m)
        ELSE IF \E i \in Indexes(m.ui.node_ids) : At(m.ui.node_ids, i) = id THEN Abort(m)
        ELSE
        LET m1 == [m EXCEPT !.ui.node_ids = Append(@, id),
                            !.ui.node_names = Append(@, name),
                            !.ui.node_type = Append(@, type),
                            !.ui.node_depth = Append(@, depth),
                            !.ui.node_parent = Append(@, parent_id),
                            !.ui.node_rect = Append(@, RECT(0, 0, 0, 0)),
                            !.ui.node_text_len = Append(@, Len(name))]
            m2 == AddTextLenToAncestors(m1, parent_id, Len(name))
        IN IF m2.aborted THEN m2 ELSE Ret(m2, id)

ui_document(m, text) == ui_named_element(m, text, kDocument)

ui_text_paragraph(m, text) == ui_named_element(m, text, kText)

ui_pane(m, text) == ui_named_element(m, text, kPane)

\* VERIFY(g_ui.actions.insert_or_assign(id, action).second): .second is
\* false when the key was already present (the value is assigned first).
ui_button(m, text, action) ==
  LET m1 == ui_named_element(m, text, kButton)
  IN IF m1.aborted THEN m1
     ELSE LET id == m1.ret
              present == id \in DOMAIN m1.ui.actions
              m2 == [m1 EXCEPT !.ui.actions = (id :> action) @@ @]
          IN IF present THEN Abort(m2) ELSE Ret(m2, id)

----------------------------------------------------------------------------
(* SRFirst: providers handed to the client *)

\* g_ui.providers, the cache of element providers: the reference_count of
\* the provider of each id that has one; empty before the first request
NoProviders == [id \in {} |-> 0]

\* create_element_provider: the provider of an existing element. The result
\* is represented by the id the provider carries. A provider is created with
\* reference_count 1 and kept in the cache; every call adds a reference.
create_element_provider(m, element_id) ==
  IF m.aborted THEN m
  ELSE IF ~exists_id(m, element_id) THEN Abort(m)
  ELSE LET cache == m.providers
           counted == [id \in DOMAIN cache \cup {element_id} |->
                         IF id # element_id THEN cache[id]
                         ELSE IF id \in DOMAIN cache THEN cache[id] + 1 ELSE 2]
       IN Ret([m EXCEPT !.providers = counted], element_id)

\* create_simple_element_provider(element_id): the body never reads its
\* parameter and asks create_element_provider for g_ui.focused_id.
create_simple_element_provider(m, element_id) ==
  create_element_provider(m, m.ui.focused_id)

----------------------------------------------------------------------------
(* SRFirst: focus *)

\* the notification is raised only when UiaClientsAreListening() and the root
\* provider exists; raising it builds a provider for the focused element.
ui_set_focus_to(m, id, listening, root_provider) ==
  IF m.aborted THEN m
  ELSE IF id = m.ui.focused_id THEN m
  ELSE LET m1 == [m EXCEPT !.ui.focused_id = id]
       IN IF listening /\ root_provider
          THEN create_simple_element_provider(m1, m1.ui.focused_id)
          ELSE m1

----------------------------------------------------------------------------
(* SRFirst: navigation, AnyElementProvider::Navigate *)

Directions == {"Parent", "NextSibling", "PreviousSibling", "FirstChild", "LastChild"}

\* for (i = index + 1; i < size && depth[i] >= this_depth; i++)
\*   if (depth[i] == this_depth) { index = i; break; }
RECURSIVE NextSiblingLoop(_, _, _, _)
NextSiblingLoop(node_depth, i, this_depth, index) ==
  IF i < size(node_depth) /\ At(node_depth, i) >= this_depth
  THEN IF At(node_depth, i) = this_depth THEN i
       ELSE NextSiblingLoop(node_depth, i + 1, this_depth, index)
  ELSE index

\* for (ri = index; ri > 0 && depth[ri-1] >= this_depth; ri--)
\*   { i = ri - 1; if (depth[i] == this_depth) { index = i; break; } }
RECURSIVE PrevSiblingLoop(_, _, _, _)
PrevSiblingLoop(node_depth, ri, this_depth, index) ==
  IF ri > 0 /\ At(node_depth, ri - 1) >= this_depth
  THEN IF At(node_depth, ri - 1) = this_depth THEN ri - 1
       ELSE PrevSiblingLoop(node_depth, ri - 1, this_depth, index)
  ELSE index

\* The child loops: the result is [index, ok]; ok is FALSE when the VERIFY
\* inside the loop (node_parent[index] == this->id) failed.
RECURSIVE FirstChildLoop(_, _, _, _, _)
FirstChildLoop(ui, i, this_depth, this_id, index) ==
  IF i < size(ui.node_ids) /\ At(ui.node_depth, i) >= this_depth + 1
  THEN IF At(ui.node_depth, i) = this_depth + 1
       THEN [index |-> i, ok |-> At(ui.node_parent, i) = this_id]
       ELSE FirstChildLoop(ui, i + 1, this_depth, this_id, index)
  ELSE [index |-> index, ok |-> TRUE]

RECURSIVE LastChildLoop(_, _, _, _, _)
LastChildLoop(ui, i, this_depth, this_id, index) ==
  IF i < size(ui.node_ids) /\ At(ui.node_depth, i) >= this_depth + 1
  THEN IF At(ui.node_depth, i) = this_depth + 1
       THEN IF At(ui.node_parent, i) = this_id
            THEN LastChildLoop(ui, i + 1, this_depth, this_id, i)
            ELSE [index |-> i, ok |-> FALSE]
       ELSE LastChildLoop(ui, i + 1, this_depth, this_id, index)
  ELSE [index |-> index, ok |-> TRUE]

\* m.ret is what *pRetVal designates: NullPtr, 0 for the root provider, or
\* the id of the element provider.
Navigate(m, this_id, direction) ==
  LET m1 == ui_get_index(m, this_id)
  IN IF m1.aborted THEN m1
     ELSE
     LET ui == m1.ui
         index0 == m1.ret
         this_depth == At(ui.node_depth, index0)
         this_parent == At(ui.node_parent, index0)
         found ==
           CASE direction = "Parent" -> [index |-> index0, ok |-> TRUE]
             [] direction = "NextSibling" ->
                  LET i == NextSiblingLoop(ui.node_depth, index0 + 1, this_depth, index0)
                  IN [index |-> i,
                      ok |-> At(ui.node_ids, i) = this_id \/ At(ui.node_parent, i) = this_parent]
             [] direction = "PreviousSibling" ->
                  LET i == PrevSiblingLoop(ui.node_depth, index0, this_depth, index0)
                  IN [index |-> i,
                      ok |-> At(ui.node_ids, i) = this_id \/ At(ui.node_parent, i) = this_parent]
             [] direction = "FirstChild" ->
                  LET r == FirstChildLoop(ui, index0 + 1, this_depth, this_id, index0)
                  IN [index |-> r.index,
                      ok |-> r.ok /\ (At(ui.node_ids, r.index) = this_id
                                      \/ At(ui.node_parent, r.index) = this_id)]
             [] direction = "LastChild" ->
                  LET r == LastChildLoop(ui, index0 + 1, this_depth, this_id, index0)
                  IN [index |-> r.index,
                      ok |-> r.ok /\ (At(ui.node_ids, r.index) = this_id
                                      \/ At(ui.node_parent, r.index) = this_id)]
         element_id == IF direction = "Parent" THEN this_parent
                       ELSE At(ui.node_ids, found.index)
     IN IF ~found.ok THEN Abort(m1)
        ELSE IF element_id = 0 THEN Ret(m1, 0)
        ELSE IF valid_id(element_id) /\ element_id # this_id
             THEN create_element_provider(m1, element_id)
        ELSE Ret(m1, NullPtr)

\* RootProvider::Navigate: the first / last node at depth 0
RootNavigate(m, direction) ==
  LET ui == m.ui
      tops == {i \in Indexes(ui.node_ids) : At(ui.node_depth, i) = 0}
      index == IF direction = "FirstChild"
               THEN CHOOSE i \in tops : \A j \in tops : i <= j
               ELSE CHOOSE i \in tops : \A j \in tops : i >= j
  IN IF direction \notin {"FirstChild", "LastChild"} \/ tops = {} THEN Ret(m, NullPtr)
     ELSE IF At(ui.node_parent, index) # 0 THEN Abort(m)
     ELSE IF valid_id(At(ui.node_ids, index))
          THEN create_element_provider(m, At(ui.node_ids, index))
     ELSE Ret(m, NullPtr)

----------------------------------------------------------------------------
(* SRFirst: the program as a state machine *)

\* the machine the handlers start from
M == [ui |-> g_ui, fingers |-> fingers, show_content |-> show_content,
      aborted |-> FALSE, ub |-> FALSE, ret |-> 0, raised |-> <<>>, destroyed |-> FALSE,
      refresh |-> FALSE, called |-> <<>>, providers |-> NoProviders, left |-> <<>>]

Commit(m) ==
  /\ g_ui' = m.ui
  /\ fingers' = m.fingers
  /\ aborted' = m.aborted
  /\ ub' = m.ub

NoRequest == [op |-> "none"]

\* TextPoint {id, offset}
TextPoint(id, offset) == [id |-> id, offset |-> offset]

\* a null ITextRangeProvider*: the client holds no range; 0 is no element's id
NullRange == [start |-> TextPoint(0, 0), end |-> TextPoint(0, 0)]

\* What a describe pass may declare: a type with a name (a string of the
\* letters 1 and 2) and, for a button, its callback. As in ui_describe the
\* Pane and the Document carry the same name.
DescribeInputs ==
  { [type |-> kPane, name |-> Main, action |-> "none"],
    [type |-> kDocument, name |-> Main, action |-> "none"],
    [type |-> kText, name |-> FirstParagraph, action |-> "none"],
    [type |-> kButton, name |-> MinimizeApplication, action |-> "CloseWindow"] }

UiTreeInit ==
  [node_ids |-> <<>>, node_names |-> <<>>, node_type |-> <<>>,
   node_parent |-> <<>>, node_depth |-> <<>>, node_rect |-> <<>>,
   node_text_len |-> <<>>, actions |-> <<>>, focused_id |-> 0, depth_for_adding_element |-> 0]

FingersInit == [id |-> <<0, 0>>, index |-> <<0, 0>>, next |-> 0]

InitSRFirst ==
  /\ g_ui = UiTreeInit
  /\ fingers = FingersInit
  /\ g_root_provider = FALSE
  /\ show_content = FALSE
  /\ client_ids = {}
  /\ aborted = FALSE
  /\ ub = FALSE
  /\ pc = "describe"
  /\ last = NoRequest
  /\ range = NullRange

\* ui_describe, one declaration: ui_pane / ui_document / ui_text_paragraph /
\* ui_button
DescribeElement(e) ==
  /\ ~aborted /\ pc = "describe"
  /\ size(g_ui.node_ids) < MaxNodes
  /\ Commit(IF e.type = kButton THEN ui_button(M, e.name, e.action)
            ELSE ui_named_element(M, e.name, e.type))
  /\ UNCHANGED <<g_root_provider, show_content, client_ids, pc, last, range>>

\* ui_describe: g_ui.depth_for_adding_element++ right after a Pane or a
\* Document was declared
DescribeIndent ==
  /\ ~aborted /\ pc = "describe"
  /\ size(g_ui.node_ids) > 0
  /\ At(g_ui.node_type, size(g_ui.node_ids) - 1) \in {kPane, kDocument}
  /\ At(g_ui.node_depth, size(g_ui.node_ids) - 1) = g_ui.depth_for_adding_element
  /\ g_ui' = [g_ui EXCEPT !.depth_for_adding_element = @ + 1]
  /\ UNCHANGED <<fingers, g_root_provider, show_content, client_ids, aborted, ub, pc, last, range>>

\* ui_describe: g_ui.depth_for_adding_element-- at the end of a container
DescribeDedent ==
  /\ ~aborted /\ pc = "describe"
  /\ g_ui.depth_for_adding_element > 0
  /\ g_ui' = [g_ui EXCEPT !.depth_for_adding_element = @ - 1]
  /\ UNCHANGED <<fingers, g_root_provider, show_content, client_ids, aborted, ub, pc, last, range>>

\* fid of ui_describe: the id of the first paragraph declared
FirstParagraphId(ui) ==
  LET texts == {i \in Indexes(ui.node_ids) : At(ui.node_type, i) = kText}
  IN IF texts = {} THEN 0
     ELSE At(ui.node_ids, CHOOSE i \in texts : \A j \in texts : i <= j)

\* the end of ui_describe: every container closed, focus initialised
DescribeEnd ==
  /\ ~aborted /\ pc = "describe"
  /\ g_ui.depth_for_adding_element = 0
  /\ Commit(IF g_ui.focused_id = 0 /\ size(g_ui.node_ids) > 0
            THEN ui_set_focus_to(M, FirstParagraphId(g_ui), FALSE, g_root_provider)
            ELSE M)
  /\ pc' = "run"
  /\ UNCHANGED <<g_root_provider, show_content, client_ids, last, range>>

\* main_window_proc, WM_GETOBJECT
WM_GETOBJECT ==
  /\ ~aborted /\ pc = "run"
  /\ g_root_provider' = TRUE
  /\ UNCHANGED <<g_ui, fingers, show_content, client_ids, aborted, ub, pc, last, range>>

ClientRootNavigate(direction) ==
  /\ ~aborted /\ pc = "run" /\ g_root_provider
  /\ \E m \in {RootNavigate(M, direction)} :
        /\ Commit(m)
        /\ last' = [op |-> "RootNavigate", id |-> 0, dir |-> direction, ret |-> m.ret]
  /\ UNCHANGED <<g_root_provider, show_content, client_ids, pc, range>>

\* the client holds providers of existing elements only
ClientNavigate(id, direction) ==
  /\ ~aborted /\ pc = "run" /\ g_root_provider
  /\ exists_id(M, id)
  /\ \E m \in {Navigate(M, id, direction)} :
        /\ Commit(m)
        /\ last' = [op |-> "Navigate", id |-> id, dir |-> direction, ret |-> m.ret]
  /\ UNCHANGED <<g_root_provider, show_content, client_ids, pc, range>>

NodeIds(ui) == {At(ui.node_ids, i) : i \in Indexes(ui.node_ids)}

NextSRFirst ==
  \/ \E e \in DescribeInputs : DescribeElement(e)
  \/ DescribeIndent
  \/ DescribeDedent
  \/ DescribeEnd
  \/ WM_GETOBJECT
  \/ \E d \in Directions : ClientRootNavigate(d)
  \/ \E id \in NodeIds(g_ui), d \in Directions : ClientNavigate(id, d)

SpecSRFirst == InitSRFirst /\ [][NextSRFirst]_vars

----------------------------------------------------------------------------
(* SRFirst: the text-range engine, AnyElementTextProvider and               *)
(* AnyElementTextRangeProvider                                              *)

MaxNeedle == 2      \* longest text a client searches for
MaxLength == 4      \* largest maxLength a client passes to GetText

\* std::wstring::npos
npos == -1

\* std::wstring::find(str, pos): the first position >= pos where str occurs,
\* or npos
find(name, str, pos) ==
  LET hits == {p \in pos .. (Len(name) - Len(str)) :
                 SubSeq(name, p + 1, p + Len(str)) = str}
  IN IF hits = {} THEN npos ELSE CHOOSE p \in hits : \A q \in hits : p <= q

\* the characters std::wstring::append(str, subpos, sublen) copies ignoring
\* sublen: the whole tail of str
append_tail(text, str, subpos, sublen) ==
  text \o SubSeq(str, subpos + 1, Len(str))

\* std::wstring::append(str, subpos, sublen): sublen characters of str from
\* subpos on, or as many as str has; sublen is a size_t, so that a negative
\* int converts to a count larger than any string.
append(text, str, subpos, sublen) ==
  LET last_pos == IF sublen < 0 \/ subpos + sublen > Len(str)
                  THEN Len(str) ELSE subpos + sublen
  IN text \o SubSeq(str, subpos + 1, last_pos)

ui_get_parent_index(m, id) ==
  Then(ui_get_index(m, id), LAMBDA m1 :
    IF m1.aborted THEN m1
    ELSE ui_get_index(m1, At(m1.ui.node_parent, m1.ret)))

RECURSIVE ui_is_ancestor(_, _, _)
ui_is_ancestor(m, candidate_ancestor_id, of_id) ==
  IF m.aborted THEN m
  ELSE IF of_id = 0 THEN Ret(m, FALSE)
  ELSE Then(ui_get_index(m, of_id), LAMBDA m1 :
         IF m1.aborted THEN m1
         ELSE LET parent_id == At(m1.ui.node_parent, m1.ret)
              IN IF parent_id = candidate_ancestor_id THEN Ret(m1, TRUE)
                 ELSE ui_is_ancestor(m1, candidate_ancestor_id, parent_id))

create_text_range(start, end) == [start |-> start, end |-> end]

\* AnyElementTextProvider::get_DocumentRange of the text provider of this_id
get_DocumentRange(m, this_id) ==
  Then(ui_get_index(m, this_id), LAMBDA m1 :
    IF m1.aborted THEN m1
    ELSE LET this_index == m1.ret
         IN IF At(m1.ui.node_type, this_index) = kDocument
            THEN Ret(m1, create_text_range(
                           TextPoint(this_id, 0),
                           TextPoint(this_id, At(m1.ui.node_text_len, this_index))))
            ELSE Ret(m1, NullRange))

\* the loop of FindText; the result is the range found or NullRange
RECURSIVE FindTextLoop(_, _, _, _, _)
FindTextLoop(m, this, search_text, id, offset) ==
  Then(ui_get_index(m, id), LAMBDA m1 :
    IF m1.aborted THEN m1
    ELSE
    LET i == m1.ret
        pos == find(At(m1.ui.node_names, i), search_text, offset)
        reached_end == /\ id = this.end.id
                       /\ \/ pos = npos
                          \/ pos + Len(search_text) >= this.end.offset
    IN IF pos # npos /\ ~reached_end
       THEN Ret(m1, create_text_range(TextPoint(id, pos),
                                      TextPoint(id, pos + Len(search_text))))
       ELSE IF reached_end \/ ~(i + 1 < size(m1.ui.node_ids))
       THEN Ret(m1, NullRange)
       ELSE FindTextLoop(m1, this, search_text, At(m1.ui.node_ids, i + 1), 0))

\* AnyElementTextRangeProvider::FindText; ret is [hr, range]
FindText(m, this, text, backward, ignoreCase) ==
  IF backward THEN Ret(m, [hr |-> "E_NOTIMPL", range |-> NullRange])
  ELSE IF ignoreCase THEN Ret(m, [hr |-> "E_NOTIMPL", range |-> NullRange])
  ELSE Then(FindTextLoop(m, this, text, this.start.id, this.start.offset), LAMBDA m1 :
         IF m1.aborted THEN m1
         ELSE Ret(m1, [hr |-> "S_OK", range |-> m1.ret]))

\* the loop of GetText; the result is the text gathered. append throws
\* std::out_of_range, which nothing catches, when offset is past the name.
RECURSIVE GetTextLoop(_, _, _, _, _)
GetTextLoop(m, this, id, offset, text) ==
  Then(ui_get_index(m, id), LAMBDA m1 :
    IF m1.aborted THEN m1
    ELSE
    LET i == m1.ret
        name == At(m1.ui.node_names, i)
        len == IF id = this.end.id THEN this.end.offset - offset ELSE Len(name)
    IN IF offset > Len(name) THEN Abort(m1)
       ELSE Then(append(text, name, offset, len), LAMBDA text1 :
              IF id = this.end.id THEN Ret(m1, text1)
              ELSE IF i + 1 >= size(m1.ui.node_ids) THEN Ret(m1, text1)
              ELSE GetTextLoop(m1, this, At(m1.ui.node_ids, i + 1), 0, text1)))

\* AnyElementTextRangeProvider::GetText
GetText(m, this, maxLength) ==
  Then(GetTextLoop(m, this, this.start.id, this.start.offset, <<>>), LAMBDA m1 :
    IF m1.aborted THEN m1
    ELSE LET text == m1.ret
             normalized_max_len == IF maxLength < 0 THEN Len(text) ELSE maxLength
             n == IF Len(text) < normalized_max_len THEN Len(text)
                  ELSE normalized_max_len
         IN Ret(m1, SubSeq(text, 1, n)))

\* the two loops `while (node_depth[i] < node_depth[j])` of
\* GetEnclosingElement: id, at index i, is replaced by its parent while it
\* is shallower than the node at index j; ret is [id, index]
RECURSIVE ClimbWhileShallower(_, _, _, _)
ClimbWhileShallower(m, id, i, j) ==
  IF m.aborted THEN m
  ELSE IF ~(At(m.ui.node_depth, i) < At(m.ui.node_depth, j))
  THEN Ret(m, [id |-> id, index |-> i])
  ELSE Then(ui_get_parent_index(m, id), LAMBDA m1 :
         IF m1.aborted THEN m1
         ELSE ClimbWhileShallower(m1, At(m1.ui.node_ids, m1.ret), m1.ret, j))

\* the loop `while (start_id != end_id)` of GetEnclosingElement
RECURSIVE ClimbTogether(_, _, _)
ClimbTogether(m, start_id, end_id) ==
  IF m.aborted THEN m
  ELSE IF start_id = end_id THEN Ret(m, start_id)
  ELSE Then(ui_get_parent_index(m, start_id), LAMBDA m1 :
         IF m1.aborted THEN m1
         ELSE Then(ui_get_parent_index(m1, end_id), LAMBDA m2 :
                IF m2.aborted THEN m2
                ELSE ClimbTogether(m2, At(m2.ui.node_ids, m1.ret),
                                       At(m2.ui.node_ids, m2.ret))))

\* the computation of enclosing_id in GetEnclosingElement, from the two
\* ui_get_index calls to the end of the loop `while (start_id != end_id)`
EnclosingId(m, start_id, end_id) ==
  Then(ui_get_index(m, start_id), LAMBDA m1 :
  IF m1.aborted THEN m1 ELSE
  Then(ui_get_index(m1, end_id), LAMBDA m2 :
  IF m2.aborted THEN m2 ELSE
  Then(ClimbWhileShallower(m2, start_id, m1.ret, m2.ret), LAMBDA m3 :
  IF m3.aborted THEN m3 ELSE
  Then(ClimbWhileShallower(m3, end_id, m2.ret, m3.ret.index), LAMBDA m4 :
  IF m4.aborted THEN m4
  ELSE IF At(m4.ui.node_depth, m3.ret.index) # At(m4.ui.node_depth, m4.ret.index)
  THEN Abort(m4)
  ELSE ClimbTogether(m4, m3.ret.id, m4.ret.id)))))

\* AnyElementTextRangeProvider::GetEnclosingElement; the result is the id the
\* provider returned carries
GetEnclosingElement(m, this) ==
  IF this.start.id = this.end.id
  THEN create_simple_element_provider(m, this.start.id)
  ELSE
  Then(EnclosingId(m, this.start.id, this.end.id), LAMBDA m5 :
  IF m5.aborted THEN m5 ELSE
  LET enclosing_id == m5.ret IN
  Then(ui_is_ancestor(m5, enclosing_id, this.start.id), LAMBDA m6 :
  IF m6.aborted THEN m6
  ELSE IF ~m6.ret THEN Abort(m6)
  ELSE
  Then(ui_is_ancestor(m6, enclosing_id, this.end.id), LAMBDA m7 :
  IF m7.aborted THEN m7
  ELSE IF ~m7.ret THEN Abort(m7)
  ELSE create_simple_element_provider(m7, enclosing_id))))

\* ui_describe: the declarations of the program, in order
ui_describe(m) ==
  LET Indent(n) == IF n.aborted THEN n
                   ELSE [n EXCEPT !.ui.depth_for_adding_element = @ + 1]
      Dedent(n) == IF n.aborted THEN n
                   ELSE [n EXCEPT !.ui.depth_for_adding_element = @ - 1]
  IN
  Then(ui_pane(m, Main), LAMBDA pane :
  Then(ui_document(Indent(pane), Main), LAMBDA document :
  Then(ui_text_paragraph(Indent(document), FirstParagraph), LAMBDA p1 :
  Then(ui_text_paragraph(p1, HelloDreamer), LAMBDA p2 :
  Then(ui_text_paragraph(p2, YetAnotherParagraph), LAMBDA p3 :
  Then(ui_button(Dedent(p3), MinimizeApplication, "CloseWindow"), LAMBDA b1 :
  Then(ui_button(b1, CloseApplication, "WM_CLOSE"), LAMBDA b2 :
  Then(Dedent(b2), LAMBDA end :
    LET fid == p1.ret
    IN IF end.aborted THEN end
       ELSE IF end.ui.focused_id = 0 /\ size(end.ui.node_ids) > 0
       THEN ui_set_focus_to(end, fid, FALSE, FALSE)
       ELSE end))))))))

----------------------------------------------------------------------------
(* SRFirst: ITextRangeProvider::Move *)

\* enum TextUnit
TextUnits == {"TextUnit_Character", "TextUnit_Format", "TextUnit_Word", "TextUnit_Line",
              "TextUnit_Paragraph", "TextUnit_Page", "TextUnit_Document"}

\* an int* argument: <<>> is the null pointer, <<v>> points at an int holding v
PointerTo(v) == <<v>>

abs(x) == IF x < 0 THEN 0 - x ELSE x

\* the loop `while (id && node_type[index] != type)` of the second step of
\* Move; ret is the id the loop ends on
RECURSIVE ClimbToType(_, _, _, _)
ClimbToType(m, id, index, type) ==
  IF m.aborted THEN m
  ELSE IF id # 0 /\ At(m.ui.node_type, index) # type
  THEN LET parent == At(m.ui.node_parent, index)
       IN Then(ui_get_index(m, parent), LAMBDA m1 :
            IF m1.aborted THEN m1 ELSE ClimbToType(m1, parent, m1.ret, type))
  ELSE Ret(m, id)

\* the while loop of advance_by_type, which starts at the index of id itself
RECURSIVE AdvanceLoop(_, _, _, _, _, _, _)
AdvanceLoop(ui, type, i, iinc, id, steps, num_steps) ==
  IF 0 <= i /\ i < size(ui.node_ids) /\ steps < num_steps
  THEN IF At(ui.node_type, i) = type
       THEN AdvanceLoop(ui, type, i + iinc, iinc, At(ui.node_ids, i), steps + 1, num_steps)
       ELSE AdvanceLoop(ui, type, i + iinc, iinc, id, steps, num_steps)
  ELSE [new_id |-> id, steps_taken |-> iinc * steps]

\* the lambda advance_by_type of Move. signed_count / num_steps divides by
\* zero when signed_count is 0: the division traps and ends the process, or
\* yields a quotient that the loop, which takes no step, never uses.
advance_by_type(m, id, signed_count, type, traps) ==
  Then(ui_get_index(m, id), LAMBDA m1 :
    IF m1.aborted THEN m1
    ELSE IF At(m1.ui.node_type, m1.ret) # type THEN Abort(m1)
    ELSE LET num_steps == abs(signed_count)
         IN IF num_steps = 0
            THEN IF traps THEN Abort(Undefined(m1))
                 ELSE Ret(Undefined(m1), [new_id |-> id, steps_taken |-> 0])
            ELSE Ret(m1, AdvanceLoop(m1.ui, type, m1.ret, signed_count \div num_steps,
                                     id, 0, num_steps)))

\* the type of node a unit moves over
UnitType(unit) == IF unit = "TextUnit_Document" THEN kDocument ELSE kText

\* AnyElementTextRangeProvider::Move; ret is [hr, range, out]: the result, the
\* range the provider holds afterwards and the int pRetVal points at
Move(m, this, unit, count, pRetVal, traps) ==
  IF pRetVal = <<>> THEN Ret(m, [hr |-> "E_POINTER", range |-> this, out |-> pRetVal])
  ELSE IF this.start = this.end
  THEN Ret(m, [hr |-> "S_OK", range |-> this, out |-> pRetVal])
  ELSE IF unit \in {"TextUnit_Line", "TextUnit_Word", "TextUnit_Character", "TextUnit_Format"}
  THEN Ret(m, [hr |-> "E_NOTIMPL", range |-> this, out |-> pRetVal])
  ELSE
  Then(IF unit = "TextUnit_Page" THEN Ret(m, this.start.id)
       ELSE Then(ui_get_index(m, this.start.id), LAMBDA m0 :
              IF m0.aborted THEN m0
              ELSE ClimbToType(m0, this.start.id, m0.ret, UnitType(unit))), LAMBDA m1 :
  IF m1.aborted THEN m1 ELSE
  LET this_id == IF m1.ret # 0 THEN m1.ret ELSE this.start.id IN
  Then(IF unit = "TextUnit_Page"
       THEN Ret(m1, [new_id |-> this_id, steps_taken |-> 0])
       ELSE advance_by_type(m1, this_id, count, UnitType(unit), traps), LAMBDA m2 :
  IF m2.aborted THEN m2 ELSE
  LET advance == m2.ret IN
  Then(ui_get_index(m2, advance.new_id), LAMBDA m3 :
  IF m3.aborted THEN m3 ELSE
  Ret(m3, [hr |-> "S_OK",
           range |-> [start |-> TextPoint(advance.new_id, 0),
                      end |-> TextPoint(advance.new_id, At(m3.ui.node_text_len, m3.ret))],
           out |-> pRetVal]))))

----------------------------------------------------------------------------
(* SRFirst: ITextRangeProvider::ExpandToEnclosingUnit and Clone *)

\* an expansion whose end is the aggregate text length of the end element
ExpandToAggregate(m, this, unit) ==
  Then(ui_get_index(m, this.end.id), LAMBDA m1 :
    IF m1.aborted THEN m1
    ELSE Ret(m1, [hr |-> "S_OK",
                  range |-> [start |-> TextPoint(this.start.id, 0),
                             end |-> TextPoint(this.end.id,
                                               At(m1.ui.node_text_len, m1.ret))]]))

\* AnyElementTextRangeProvider::ExpandToEnclosingUnit, which does not read
\* unit; ret is [hr, range], the range the provider holds afterwards
ExpandToEnclosingUnit(m, this, unit) ==
  Then(ui_get_index(m, this.end.id), LAMBDA m1 :
    IF m1.aborted THEN m1
    ELSE LET new_start == TextPoint(this.start.id, 0)
             new_end == TextPoint(this.end.id, Len(At(m1.ui.node_names, m1.ret)))
         IN Ret(m1, [hr |-> "S_OK", range |-> [start |-> new_start, end |-> new_end]]))

\* AnyElementTextRangeProvider::Clone; pRetVal is <<>> for a null pointer; ret
\* is [hr, range], the range of the provider handed out
Clone(m, this, pRetVal) ==
  IF pRetVal = <<>> THEN Ret(m, [hr |-> "E_POINTER", range |-> NullRange])
  ELSE Ret(m, [hr |-> "S_OK", range |-> create_text_range(this.start, this.end)])

----------------------------------------------------------------------------
(* SRFirst: ITextRangeProvider::GetChildren and GetBoundingRectangles *)

\* the loop of GetChildren; offset is the local variable that is set once,
\* from start.offset. ret is the vector children: the ids of the providers
\* pushed.
RECURSIVE GetChildrenLoop(_, _, _, _, _)
GetChildrenLoop(m, this, id, offset, children) ==
  Then(ui_get_index(m, id), LAMBDA m1 :
    IF m1.aborted THEN m1
    ELSE
    Then(IF offset = 0
         THEN Then(create_simple_element_provider(m1, m1.ui.focused_id), LAMBDA sp :
                IF sp.aborted THEN sp ELSE Ret(sp, Append(children, sp.ret)))
         ELSE Ret(m1, children), LAMBDA m2 :
      IF m2.aborted THEN m2
      ELSE LET i == m1.ret
           IN IF id = this.end.id THEN m2
              ELSE IF i + 1 >= size(m2.ui.node_ids) THEN m2
              ELSE GetChildrenLoop(m2, this, At(m2.ui.node_ids, i + 1), offset, m2.ret)))

\* AnyElementTextRangeProvider::GetChildren; pRetVal is <<>> for a null
\* pointer; ret is [hr, out], out the array stored through pRetVal
GetChildren(m, this, pRetVal) ==
  Then(GetChildrenLoop(m, this, this.start.id, this.start.offset, <<>>), LAMBDA m1 :
    IF m1.aborted THEN m1
    ELSE IF pRetVal = <<>> THEN Ret(m1, [hr |-> "E_POINTER", out |-> pRetVal])
    ELSE Ret(m1, [hr |-> "S_OK", out |-> PointerTo(m1.ret)]))

max(a, b) == IF a < b THEN b ELSE a

min(a, b) == IF b < a THEN b ELSE a

\* RECT intersection(RECT const a, RECT const b)
intersection(a, b) ==
  RECT(max(a.left, b.left), max(a.top, b.top), min(a.right, b.right), max(a.bottom, b.bottom))

\* RECT operator+ (RECT const a, POINT b)
Translated(a, b) == RECT(a.left + b.x, a.top + b.y, a.right + b.x, a.bottom + b.y)

\* the loop of GetBoundingRectangles; ret is the vector rects
RECURSIVE GetBoundingRectanglesLoop(_, _, _, _, _, _)
GetBoundingRectanglesLoop(m, this, id, ClientRect, LeftTop, rects) ==
  Then(ui_get_index(m, id), LAMBDA m1 :
    IF m1.aborted THEN m1
    ELSE LET i == m1.ret
             r == intersection(At(m1.ui.node_rect, i), ClientRect)
             rects1 == IF r.left <= r.right /\ r.top <= r.bottom
                       THEN Append(rects, Translated(r, LeftTop))
                       ELSE rects
         IN IF id = this.end.id \/ ~(i + 1 < size(m1.ui.node_ids))
            THEN Ret(m1, rects1)
            ELSE GetBoundingRectanglesLoop(m1, this, At(m1.ui.node_ids, i + 1),
                                           ClientRect, LeftTop, rects1))

\* AnyElementTextRangeProvider::GetBoundingRectangles. ClientRect is what
\* GetClientRect gives, LeftTop what ClientToScreen makes of its corner;
\* pRetVal is <<>> for a null pointer; ret is [hr, out]
GetBoundingRectangles(m, this, ClientRect, LeftTop, pRetVal) ==
  Then(GetBoundingRectanglesLoop(m, this, this.start.id, ClientRect, LeftTop, <<>>),
       LAMBDA m1 :
    IF m1.aborted THEN m1
    ELSE IF pRetVal = <<>> THEN Ret(m1, [hr |-> "E_POINTER", out |-> pRetVal])
    ELSE Ret(m1, [hr |-> "S_OK", out |-> PointerTo(m1.ret)]))

\* AnyElementProvider::get_ProviderOptions and RootProvider's, which return
\* the options as the HRESULT, a success code, and never look at pRetVal; ret
\* is [hr, out]
get_ProviderOptions(m, pRetVal) ==
  Ret(m, [hr |-> "ProviderOptions_ServerSideProvider | ProviderOptions_UseComThreading",
          out |-> pRetVal])

----------------------------------------------------------------------------
(* SRFirst: the text-range methods that only return a result *)

Methods == {"AddToSelection", "FindAttribute", "GetAttributeValue",
            "MoveEndpointByRange", "MoveEndpointByUnit", "RemoveFromSelection",
            "ScrollIntoView", "Select"}

\* AddToSelection, FindAttribute, GetAttributeValue, MoveEndpointByRange,
\* MoveEndpointByUnit, RemoveFromSelection, ScrollIntoView and Select, none of
\* which reads an argument; ret is [hr, range]
Call(m, this, method) ==
  Ret(m, [hr |-> IF method = "AddToSelection" THEN "E_UNEXPECTED" ELSE "E_NOTIMPL",
          range |-> this])

----------------------------------------------------------------------------
(* SRFirst: a client of the text-range engine, as a state machine. Of a     *)
(* request `last` keeps the name, and the result where the request has no  *)
(* argument.                                                                *)

\* the process when ui_describe has returned
Described ==
  ui_describe([ui |-> UiTreeInit, fingers |-> FingersInit, show_content |-> FALSE,
               aborted |-> FALSE, ub |-> FALSE, ret |-> 0, raised |-> <<>>,
               destroyed |-> FALSE, refresh |-> FALSE, called |-> <<>>,
               providers |-> NoProviders, left |-> <<>>])

\* TextPoint's operator<=>, as a <= b: offsets when the ids are equal, the
\* nodes' indexes otherwise
TextPointLeq(ui, a, b) ==
  IF a.id = b.id THEN a.offset <= b.offset
  ELSE LinearScan(ui.node_ids, a.id) <= LinearScan(ui.node_ids, b.id)

\* the characters of the alphabet of the names
Letters == {1, 2}

\* the texts a client searches for
Needles == UNION {[1 .. n -> Letters] : n \in 1 .. MaxNeedle}

\* The ranges create_text_range is asked for: start <= end; a start offset
\* lies within the name of its node, an end offset within the name or at the
\* node's node_text_len (as get_DocumentRange places it).
InputRanges(ui) ==
  LET Starts == UNION {{TextPoint(At(ui.node_ids, i), o) :
                           o \in 0 .. Len(At(ui.node_names, i))} :
                        i \in Indexes(ui.node_ids)}
      Ends == Starts \cup {TextPoint(At(ui.node_ids, i), At(ui.node_text_len, i)) :
                             i \in Indexes(ui.node_ids)}
  IN {r \in [start : Starts, end : Ends] : TextPointLeq(ui, r.start, r.end)}

InitText ==
  /\ g_ui = Described.ui
  /\ fingers = Described.fingers
  /\ g_root_provider = TRUE
  /\ show_content = FALSE
  /\ client_ids = {}
  /\ aborted = FALSE
  /\ ub = FALSE
  /\ pc = "run"
  /\ last = NoRequest
  /\ range \in {NullRange} \cup InputRanges(Described.ui)

TextRunning == ~aborted /\ ~ub /\ pc = "run" /\ g_root_provider

\* GetPatternProvider(UIA_TextPatternId) of a Document or Text element, then
\* get_DocumentRange of the text provider; the client keeps the range
ClientGetDocumentRange(id) ==
  /\ TextRunning
  /\ exists_id(M, id)
  /\ At(g_ui.node_type, LinearScan(g_ui.node_ids, id)) \in {kDocument, kText}
  /\ \E m \in {get_DocumentRange(M, id)} :
        /\ Commit(m)
        /\ last' = [op |-> "get_DocumentRange"]
        /\ range' = IF m.aborted \/ m.ret = NullRange THEN range ELSE m.ret
  /\ UNCHANGED <<g_root_provider, show_content, client_ids, pc>>

ClientFindText(text, backward, ignoreCase) ==
  /\ TextRunning
  /\ range # NullRange
  /\ \E m \in {FindText(M, range, text, backward, ignoreCase)} :
        /\ Commit(m)
        /\ last' = [op |-> "FindText"]
  /\ UNCHANGED <<g_root_provider, show_content, client_ids, pc, range>>

ClientGetText(maxLength) ==
  /\ TextRunning
  /\ range # NullRange
  /\ \E m \in {GetText(M, range, maxLength)} :
        /\ Commit(m)
        /\ last' = [op |-> "GetText"]
  /\ UNCHANGED <<g_root_provider, show_content, client_ids, pc, range>>

ClientGetEnclosingElement ==
  /\ TextRunning
  /\ range # NullRange
  /\ \E m \in {GetEnclosingElement(M, range)} :
        /\ Commit(m)
        /\ last' = [op |-> "GetEnclosingElement", ret |-> m.ret]
  /\ UNCHANGED <<g_root_provider, show_content, client_ids, pc, range>>

\* the counts a client moves by
MaxCount == 2

Counts == (0 - MaxCount) .. MaxCount

\* what a client passes for pRetVal: a null pointer, or the address of an int
\* it has or has not set to 0
OutPointers == {<<>>, PointerTo(0), PointerTo(1)}

ClientMove(unit, count, pRetVal, traps) ==
  /\ TextRunning
  /\ range # NullRange
  /\ \E m \in {Move(M, range, unit, count, pRetVal, traps)} :
        /\ Commit(m)
        /\ last' = [op |-> "Move"]
        /\ range' = IF m.aborted THEN range ELSE m.ret.range
  /\ UNCHANGED <<g_root_provider, show_content, client_ids, pc>>

ClientCall(method) ==
  /\ TextRunning
  /\ range # NullRange
  /\ \E m \in {Call(M, range, method)} :
        /\ Commit(m)
        /\ last' = [op |-> method]
        /\ range' = m.ret.range
  /\ UNCHANGED <<g_root_provider, show_content, client_ids, pc>>

NextText ==
  \/ \E id \in NodeIds(g_ui) : ClientGetDocumentRange(id)
  \/ \E text \in Needles, backward \in BOOLEAN, ignoreCase \in BOOLEAN :
       ClientFindText(text, backward, ignoreCase)
  \/ \E maxLength \in -1 .. MaxLength : ClientGetText(maxLength)
  \/ ClientGetEnclosingElement

SpecText == InitText /\ [][NextText]_vars

ClientExpandToEnclosingUnit(unit) ==
  /\ TextRunning
  /\ range # NullRange
  /\ \E m \in {ExpandToEnclosingUnit(M, range, unit)} :
        /\ Commit(m)
        /\ last' = [op |-> "ExpandToEnclosingUnit"]
        /\ range' = IF m.aborted THEN range ELSE m.ret.range
  /\ UNCHANGED <<g_root_provider, show_content, client_ids, pc>>

\* the client keeps the clone in place of the range it cloned
ClientClone(pRetVal) ==
  /\ TextRunning
  /\ range # NullRange
  /\ \E m \in {Clone(M, range, pRetVal)} :
        /\ Commit(m)
        /\ last' = [op |-> "Clone", hr |-> m.ret.hr]
        /\ range' = IF m.ret.hr = "S_OK" THEN m.ret.range ELSE range
  /\ UNCHANGED <<g_root_provider, show_content, client_ids, pc>>

\* where the client area's corner is on the screen
LeftTops == {[x |-> 0, y |-> 0], [x |-> 10, y |-> 20]}

\* what GetClientRect gives: a window with no client area, or one with some
ClientRects == {RECT(0, 0, 0, 0), RECT(0, 0, 2, 2)}

\* the client releases the references it is given
ClientGetChildren(pRetVal) ==
  /\ TextRunning
  /\ range # NullRange
  /\ \E m \in {GetChildren(M, range, pRetVal)} :
        /\ Commit(m)
        /\ last' = [op |-> "GetChildren", ret |-> m.ret]
  /\ UNCHANGED <<g_root_provider, show_content, client_ids, pc, range>>

ClientGetBoundingRectangles(ClientRect, LeftTop, pRetVal) ==
  /\ TextRunning
  /\ range # NullRange
  /\ \E m \in {GetBoundingRectangles(M, range, ClientRect, LeftTop, pRetVal)} :
        /\ Commit(m)
        /\ last' = [op |-> "GetBoundingRectangles", ret |-> m.ret]
  /\ UNCHANGED <<g_root_provider, show_content, client_ids, pc, range>>

ClientGetProviderOptions(pRetVal) ==
  /\ TextRunning
  /\ \E m \in {get_ProviderOptions(M, pRetVal)} :
        /\ Commit(m)
        /\ last' = [op |-> "get_ProviderOptions", ret |-> m.ret]
  /\ UNCHANGED <<g_root_provider, show_content, client_ids, pc, range>>

\* a client that moves its range and asks for what the provider leaves out
NextMove ==
  \/ \E unit \in TextUnits, count \in Counts, pRetVal \in OutPointers :
       \E traps \in (IF count = 0 THEN BOOLEAN ELSE {FALSE}) :
          ClientMove(unit, count, pRetVal, traps)
  \/ \E method \in Methods : ClientCall(method)
  \/ \E unit \in TextUnits : ClientExpandToEnclosingUnit(unit)
  \/ \E pRetVal \in {<<>>, PointerTo(NullRange)} : ClientClone(pRetVal)
  \/ \E pRetVal \in {<<>>, PointerTo(0)} : ClientGetProviderOptions(pRetVal)
  \/ \E pRetVal \in {<<>>, PointerTo(<<>>)} : ClientGetChildren(pRetVal)
  \/ \E ClientRect \in ClientRects, LeftTop \in LeftTops, pRetVal \in {<<>>, PointerTo(<<>>)} :
       ClientGetBoundingRectangles(ClientRect, LeftTop, pRetVal)

SpecMove == InitText /\ [][NextMove]_vars

----------------------------------------------------------------------------
(* TodoApp: ids, inputs, focus *)

\* Ui::Id is std::uint32_t: ui_named_element keeps bits(genid, 0, 32), the
\* low half of the 64-bit hash.
TodoIdLimit == 2 ^ (IdBits - 1)

Todo_InvalidId == TodoIdLimit - 1

Todo_valid_id(id) == 0 < id /\ id < Todo_InvalidId

bits(x, start, num) == (x \div (2 ^ start)) % (2 ^ num)

Keys == {"VK_RETURN", "VK_DOWN", "VK_UP", "VK_TAB", "VK_SHIFT"}

\* the keys the user types
TypedKeys == {"VK_RETURN", "VK_DOWN", "VK_UP"}

\* struct DigitalButton
DigitalButtonInit == [is_down |-> FALSE, pressed |-> FALSE, released |-> FALSE]

\* a button that reports released whenever it is up
ui_update_level(button, is_down) ==
  [is_down |-> is_down,
   pressed |-> is_down /\ ~button.is_down,
   released |-> ~is_down]

ui_update(button, is_down) ==
  [is_down |-> is_down,
   pressed |-> is_down /\ ~button.is_down,
   released |-> button.is_down /\ ~is_down]

ui_on_press(m, key) == m.ui.inputs.keys_per_vk[key].pressed

ui_update_focus(m, new_id) ==
  IF Halted(m) THEN m
  ELSE [m EXCEPT !.ui.focus.id = new_id,
                 !.ui.focus.updated = (new_id # m.ui.focus.id)]

Todo_ui_get_index(m, id) ==
  IF Halted(m) THEN m
  ELSE IF ~Todo_valid_id(id) THEN Abort(m)
  ELSE IF id = m.fingers.id[1] THEN Ret(m, m.fingers.index[1])
  ELSE IF id = m.fingers.id[2] THEN Ret(m, m.fingers.index[2])
  ELSE LET index == LinearScan(m.ui.node_ids, id)
           slot == m.fingers.next + 1
       IN IF ~(index < size(m.ui.node_ids)) THEN Abort(m)
          ELSE [m EXCEPT !.fingers.id[slot] = id,
                         !.fingers.index[slot] = index,
                         !.fingers.next = (m.fingers.next + 1) % 2,
                         !.ret = index]

----------------------------------------------------------------------------
(* TodoApp: navigation helpers. `garbage` is what a read past the end of
   node_ids yields. *)

\* node_ids[i], which the callers compute from an iterator's base()
ReadNodeId(m, i, garbage) ==
  IF i < size(m.ui.node_ids) THEN Ret(m, At(m.ui.node_ids, i))
  ELSE Ret(Undefined(m), garbage)

\* rf = make_reverse_iterator(begin + index - 1) starts at the element
\* index - 2; the result is read at pos.base(), one past the element found.
ui_prev_sibling(m, id, garbage) ==
  IF ~Todo_valid_id(id) THEN Abort(m)
  ELSE Then(Todo_ui_get_index(m, id), LAMBDA m1 :
          IF Halted(m1) THEN m1
          ELSE LET index == m1.ret
                   found == FindBwd(m1.ui.node_depth, index - 1, At(m1.ui.node_depth, index))
               IN IF index = 0 THEN Ret(m1, Todo_InvalidId)
                  ELSE IF ~(index < size(m1.ui.node_depth)) THEN Ret(Undefined(m1), garbage)
                  ELSE IF found = -1 THEN Ret(m1, Todo_InvalidId)
                  ELSE Ret(m1, At(m1.ui.node_ids, found + 1)))

ui_next_sibling(m, id, garbage) ==
  IF ~Todo_valid_id(id) THEN Abort(m)
  ELSE Then(Todo_ui_get_index(m, id), LAMBDA m1 :
          IF Halted(m1) THEN m1
          ELSE LET index == m1.ret
                   pos == FindFwd(m1.ui.node_depth, index + 1, At(m1.ui.node_depth, index))
               IN IF index + 1 = size(m1.ui.node_depth) THEN Ret(m1, Todo_InvalidId)
                  ELSE IF ~(index < size(m1.ui.node_depth)) THEN Ret(Undefined(m1), garbage)
                  ELSE IF pos = size(m1.ui.node_depth) THEN Ret(m1, Todo_InvalidId)
                  ELSE Ret(m1, At(m1.ui.node_ids, pos)))

ui_first_child(m, id, garbage) ==
  IF ~Todo_valid_id(id) THEN Abort(m)
  ELSE Then(Todo_ui_get_index(m, id), LAMBDA m1 :
          IF Halted(m1) THEN m1
          ELSE LET index == m1.ret
                   pos == FindFwd(m1.ui.node_depth, index + 1, At(m1.ui.node_depth, index) + 1)
               IN IF index + 1 = size(m1.ui.node_depth) THEN Ret(m1, Todo_InvalidId)
                  ELSE IF ~(index < size(m1.ui.node_depth)) THEN Ret(Undefined(m1), garbage)
                  ELSE IF pos = size(m1.ui.node_depth) THEN Ret(m1, Todo_InvalidId)
                  ELSE Ret(m1, At(m1.ui.node_ids, pos)))

\* l = find(f + index + 1, end, depth[index]); the reverse search runs over
\* [index + 1, l) and the result is read at pos.base().
ui_last_child(m, id, garbage) ==
  IF ~Todo_valid_id(id) THEN Abort(m)
  ELSE Then(Todo_ui_get_index(m, id), LAMBDA m1 :
          IF Halted(m1) THEN m1
          ELSE LET index == m1.ret
                   depths == m1.ui.node_depth
                   l == FindFwd(depths, index + 1, At(depths, index))
                   hits == {i \in (index + 1) .. (l - 1) : At(depths, i) = At(depths, index) + 1}
                   found == CHOOSE i \in hits : \A j \in hits : i >= j
               IN IF index + 1 = size(depths) THEN Ret(m1, Todo_InvalidId)
                  ELSE IF ~(index < size(depths)) THEN Ret(Undefined(m1), garbage)
                  ELSE IF hits = {} THEN Ret(m1, Todo_InvalidId)
                  ELSE ReadNodeId(m1, found + 1, garbage))

\* AnyElementProvider::Navigate of TodoApp; m.ret is NullPtr, 0 for the root
\* provider or the id of the provider created.
Todo_Navigate(m, this_id, direction, garbage) ==
  Then(Todo_ui_get_index(m, this_id), LAMBDA m0 :
  IF Halted(m0) THEN m0
  ELSE
  LET this_index == m0.ret IN
  Then(CASE direction = "Parent" ->
              IF this_index < size(m0.ui.node_parent)
              THEN Ret(m0, At(m0.ui.node_parent, this_index))
              ELSE Ret(Undefined(m0), garbage)
         [] direction = "NextSibling" -> ui_next_sibling(m0, this_id, garbage)
         [] direction = "PreviousSibling" -> ui_prev_sibling(m0, this_id, garbage)
         [] direction = "FirstChild" -> ui_first_child(m0, this_id, garbage)
         [] direction = "LastChild" -> ui_last_child(m0, this_id, garbage), LAMBDA m1 :
    LET found_id == m1.ret
    IN IF m1.aborted THEN m1
       ELSE IF found_id = this_id THEN Ret(m1, NullPtr)
       ELSE IF found_id = 0 THEN Ret(m1, 0)
       ELSE IF Todo_valid_id(found_id) THEN Ret(m1, found_id)
       ELSE Ret(m1, NullPtr)))

----------------------------------------------------------------------------
(* TodoApp: describing the tree, ui_begin .. ui_end *)

RemoveAt(seq, i) == [k \in 1 .. (Len(seq) - 1) |-> IF k <= i THEN seq[k] ELSE seq[k + 1]]

\* buttons_to_remove comes out of std::set_difference sorted by id; every
\* pair keeps the index the button had before the first erase.
RECURSIVE RemoveButtons(_, _)
RemoveButtons(m, to_remove) ==
  IF Halted(m) \/ to_remove = {} THEN m
  ELSE LET pair == CHOOSE p \in to_remove : \A q \in to_remove : p[1] <= q[1]
           id == pair[1]
           index == pair[2]
       IN IF ~(index < size(m.ui.buttons.ids)) THEN Undefined(m)
          ELSE IF At(m.ui.buttons.ids, index) # id THEN Abort(m)
          ELSE RemoveButtons([m EXCEPT !.ui.buttons.ids = RemoveAt(@, index),
                                       !.ui.buttons.state = RemoveAt(@, index)],
                             to_remove \ {pair})

ui_begin(m) ==
  IF Halted(m) THEN m
  ELSE
  LET live_nodes == {At(m.ui.node_ids, i) : i \in Indexes(m.ui.node_ids)}
      buttons_to_remove == {<<At(m.ui.buttons.ids, i), i>> : i \in
                              {j \in Indexes(m.ui.buttons.ids) : At(m.ui.buttons.ids, j) \notin live_nodes}}
  IN Then(RemoveButtons(m, buttons_to_remove), LAMBDA m1 :
       IF Halted(m1) THEN m1
       ELSE [m1 EXCEPT !.ui.node_ids = <<>>, !.ui.node_names = <<>>, !.ui.node_type = <<>>,
                       !.ui.node_depth = <<>>, !.ui.node_parent = <<>>,
                       !.ui.node_rect = <<>>])

\* the index of the last node one level above depth_for_adding_nodes, or -1
ui_search_parent_index_for_adding(ui) ==
  FindBwd(ui.node_depth, size(ui.node_ids), ui.depth_for_adding_nodes - 1)

Todo_ui_named_element(m, name, type, text) ==
  IF Halted(m) THEN m
  ELSE
  LET depth == m.ui.depth_for_adding_nodes
      parent_index == ui_search_parent_index_for_adding(m.ui)
  IN IF depth # 0 /\ parent_index = -1 THEN Abort(m)
     ELSE
     LET parent_id == IF depth = 0 THEN 0 ELSE At(m.ui.node_ids, parent_index)
         genid == wyhash64(hash(name), parent_id)
         id == bits(genid, 0, IdBits - 1)
     IN IF ~Todo_valid_id(id) THEN Abort(m)
        ELSE IF FindFwd(m.ui.node_ids, 0, id) # size(m.ui.node_ids) THEN Abort(m)
        ELSE [m EXCEPT !.ui.node_ids = Append(@, id),
                       !.ui.node_names = Append(@, IF text # <<>> THEN text ELSE name),
                       !.ui.node_type = Append(@, type),
                       !.ui.node_depth = Append(@, depth),
                       !.ui.node_parent = Append(@, parent_id),
                       !.ui.node_rect = Append(@, RECT(0, 0, 200, 200)),
                       !.ret = id]

Todo_ui_text_paragraph(m, content) == Todo_ui_named_element(m, content, kText, <<>>)

\* m.ret is the ButtonResult
Todo_ui_button(m, name, text) ==
  Then(Todo_ui_named_element(m, name, kButton, text), LAMBDA m1 :
    IF Halted(m1) THEN m1
    ELSE
    LET id == m1.ret
        button_pos == FindFwd(m1.ui.buttons.ids, 0, id)
    IN Then(IF button_pos = size(m1.ui.buttons.ids)
            THEN [m1 EXCEPT !.ui.buttons.ids = Append(@, id),
                            !.ui.buttons.state = Append(@, DigitalButtonInit)]
            ELSE m1, LAMBDA m2 :
         LET is_down == m2.ui.inputs.updated /\ m2.ui.focus.id = id
                        /\ m2.ui.inputs.keys_per_vk["VK_RETURN"].is_down
             state == ui_update(At(m2.ui.buttons.state, button_pos), is_down)
             m3 == [m2 EXCEPT !.ui.buttons.state = SetAt(@, button_pos, state)]
         IN Ret(m3, [id |-> id, activated |-> state.released])))

ui_pane_begin(m, name) ==
  Then(Todo_ui_named_element(m, name, kPane, <<>>), LAMBDA m1 :
    IF Halted(m1) THEN m1
    ELSE [m1 EXCEPT !.ui.depth_for_adding_nodes = @ + 1])

\* a ui_pane_end that closes whatever pane is open
ui_pane_end_any(m, pane) ==
  IF Halted(m) THEN m
  ELSE IF ui_search_parent_index_for_adding(m.ui) = -1 THEN Abort(m)
  ELSE [m EXCEPT !.ui.depth_for_adding_nodes = @ - 1]

ui_pane_end(m, pane) ==
  IF Halted(m) THEN m
  ELSE LET pane_index == ui_search_parent_index_for_adding(m.ui)
       IN IF pane_index = -1 THEN Abort(m)
          ELSE IF pane # At(m.ui.node_ids, pane_index) THEN Abort(m)
          ELSE IF m.ui.depth_for_adding_nodes - 1 # At(m.ui.node_depth, pane_index) THEN Abort(m)
          ELSE [m EXCEPT !.ui.depth_for_adding_nodes = @ - 1]

\* events go out only while UiaClientsAreListening()
RECURSIVE InvokedEvents(_, _)
InvokedEvents(buttons, i) ==
  IF i >= size(buttons.state) THEN <<>>
  ELSE (IF At(buttons.state, i).released
        THEN <<[event |-> "Invoked", id |-> At(buttons.ids, i)]>> ELSE <<>>)
       \o InvokedEvents(buttons, i + 1)

\* UiaRaiseAutomationEvent is a call out of the program: `left` keeps the
\* g_ui of every moment control leaves main_update
ui_uia_raise_events_for_updates(m, listening) ==
  IF Halted(m) \/ ~listening THEN m
  ELSE LET events == (IF m.ui.focus.updated
                      THEN <<[event |-> "AutomationFocusChanged", id |-> m.ui.focus.id]>>
                      ELSE <<>>)
                     \o InvokedEvents(m.ui.buttons, 0)
       IN [m EXCEPT !.raised = @ \o events,
                    !.left = @ \o [i \in DOMAIN events |->
                                     [at |-> "UiaRaiseAutomationEvent", ui |-> m.ui]]]

\* the keyboard part of ui_end
ui_end_focus_keys(m, garbage) ==
  LET inputs == m.ui.inputs
      focus_next == ui_on_press(m, "VK_DOWN")
                    \/ (~inputs.shift_key.is_down /\ ui_on_press(m, "VK_TAB"))
      focus_prev == ui_on_press(m, "VK_UP")
                    \/ (inputs.shift_key.is_down /\ ui_on_press(m, "VK_TAB"))
  IN IF ~inputs.updated THEN m
     ELSE IF m.ui.focus.id = 0 /\ m.ui.node_ids # <<>> /\ (focus_next \/ focus_prev)
     THEN ui_update_focus(m, At(m.ui.node_ids, 0))
     ELSE IF focus_next
     THEN Then(Todo_ui_get_index(m, m.ui.focus.id), LAMBDA m1 :
            IF Halted(m1) THEN m1
            ELSE IF m1.ret + 1 < size(m1.ui.node_ids)
            THEN ui_update_focus(m1, At(m1.ui.node_ids, m1.ret + 1))
            ELSE m1)
     ELSE IF focus_prev
     THEN Then(Todo_ui_get_index(m, m.ui.focus.id), LAMBDA m1 :
            IF Halted(m1) THEN m1
            ELSE IF m1.ret > 0
            THEN IF m1.ret - 1 < size(m1.ui.node_ids)
                 THEN ui_update_focus(m1, At(m1.ui.node_ids, m1.ret - 1))
                 ELSE [ui_update_focus(m1, garbage) EXCEPT !.ub = TRUE]
            ELSE m1)
     ELSE m

ui_end(m, listening, garbage) ==
  IF Halted(m) THEN m
  ELSE IF ~(m.ui.focus.id = 0 \/ FindFwd(m.ui.node_ids, 0, m.ui.focus.id) # size(m.ui.node_ids))
  THEN Abort(m)
  ELSE
  Then(ui_end_focus_keys(m, garbage), LAMBDA m1 :
  IF Halted(m1) THEN m1 ELSE
  Then(ui_uia_raise_events_for_updates(m1, listening), LAMBDA m2 :
  Then([m2 EXCEPT !.ui.buttons.state =
                    [i \in DOMAIN @ |-> [@[i] EXCEPT !.pressed = FALSE, !.released = FALSE]],
                  !.ui.focus.updated = FALSE,
                  !.ui.inputs.updated = FALSE], LAMBDA m3 :
    IF m3.ui.depth_for_adding_nodes # 0 THEN Abort(m3) ELSE m3)))

----------------------------------------------------------------------------
(* TodoApp: the application, main_update *)

Activated(m) == ~Halted(m) /\ m.ret.activated

\* one turn of the while (content_need_refresh) loop
main_update_pass(m, listening, garbage) ==
  Then(ui_begin([m EXCEPT !.refresh = FALSE]), LAMBDA m0 :
  Then(ui_pane_begin(m0, Main), LAMBDA m1 :
  LET pane == m1.ret IN
  Then(Todo_ui_button(m1, ContentToggle,
                      IF m1.show_content THEN HideContent ELSE ShowContent), LAMBDA m2 :
  LET show_content_button == m2.ret IN
  Then(IF Activated(m2) THEN [m2 EXCEPT !.show_content = ~@] ELSE m2, LAMBDA m3 :
  Then(IF ~Halted(m3) /\ m3.show_content
       THEN Then(Todo_ui_text_paragraph(m3, LoremIpsum), LAMBDA m4 :
            Then(IF Activated(m2) THEN ui_update_focus(m4, m4.ret) ELSE m4, LAMBDA m5 :
            Then(Todo_ui_button(m5, Done, <<>>), LAMBDA m6 :
              IF Activated(m6)
              THEN [ui_update_focus([m6 EXCEPT !.show_content = FALSE],
                                    show_content_button.id)
                      EXCEPT !.refresh = TRUE]
              ELSE m6)))
       ELSE m3, LAMBDA m8 :
  Then(Todo_ui_text_paragraph(m8, YouMayClose), LAMBDA m9 :
  Then(Todo_ui_button(m9, CloseApplicationDot, <<>>), LAMBDA m10 :
  Then(IF Activated(m10)
       THEN [m10 EXCEPT !.destroyed = TRUE,
                        !.left = Append(@, [at |-> "DestroyWindow", ui |-> m10.ui])]
       ELSE m10, LAMBDA m11 :
  Then(ui_pane_end(m11, pane), LAMBDA m12 :
    ui_end(m12, listening, garbage))))))))))

RECURSIVE main_update(_, _, _)
main_update(m, listening, garbage) ==
  Then(main_update_pass(m, listening, garbage), LAMBDA m1 :
    IF Halted(m1) \/ ~m1.refresh THEN m1
    ELSE main_update(m1, listening, garbage))

\* RootProvider::Navigate of TodoApp
Todo_RootNavigate(m, direction, garbage) ==
  LET depths == m.ui.node_depth
      first == FindFwd(depths, 0, 0)
      last_pos == FindBwd(depths, size(depths), 0)
      m1 == CASE direction = "FirstChild" ->
                   IF first = size(depths) THEN Ret(m, Todo_InvalidId)
                   ELSE Ret(m, At(m.ui.node_ids, first))
              [] direction = "LastChild" ->
                   IF last_pos = -1 THEN Ret(m, Todo_InvalidId)
                   ELSE ReadNodeId(m, last_pos + 1, garbage)
              [] OTHER -> Ret(m, Todo_InvalidId)
  IN IF Todo_valid_id(m1.ret) THEN m1 ELSE Ret(m1, NullPtr)

\* AnyElementProvider::GetPropertyValue of TodoApp
Properties == {"UIA_NamePropertyId", "UIA_ControlTypePropertyId"}

Todo_GetPropertyValue(m, id, propertyId, garbage) ==
  Then(Todo_ui_get_index(m, id), LAMBDA m1 :
    LET this_index == m1.ret
    IN IF Halted(m1) THEN m1
       ELSE CASE propertyId = "UIA_NamePropertyId" ->
                   IF this_index < size(m1.ui.node_names)
                   THEN Ret(m1, At(m1.ui.node_names, this_index))
                   ELSE Ret(Undefined(m1), <<garbage>>)
              [] propertyId = "UIA_HasKeyboardFocusPropertyId" ->
                   Ret(m1, m1.ui.focus.id = id)
              [] propertyId = "UIA_ControlTypePropertyId" ->
                   IF this_index < size(m1.ui.node_type)
                   THEN Ret(m1, At(m1.ui.node_type, this_index))
                   ELSE Ret(Undefined(m1), kNone))

----------------------------------------------------------------------------
(* TodoApp: the program as a state machine *)

MaxKeysDown == 1

MaxProviders == 1

TodoIds == 0 .. (TodoIdLimit - 1)

TodoUiInit ==
  [inputs |-> [updated |-> FALSE,
               keys_per_vk |-> [k \in Keys |-> DigitalButtonInit],
               shift_key |-> DigitalButtonInit],
   focus |-> [id |-> 0, updated |-> FALSE],
   depth_for_adding_nodes |-> 0,
   node_ids |-> <<>>, node_names |-> <<>>, node_type |-> <<>>,
   node_parent |-> <<>>, node_depth |-> <<>>, node_rect |-> <<>>,
   buttons |-> [ids |-> <<>>, state |-> <<>>]]

InitTodoApp ==
  /\ g_ui = TodoUiInit
  /\ fingers = FingersInit
  /\ g_root_provider = FALSE
  /\ show_content = FALSE
  /\ client_ids = {}
  /\ aborted = FALSE
  /\ ub = FALSE
  /\ pc = "todo"
  /\ last = NoRequest
  /\ range = NullRange

\* UiaClientsAreListening(): no client listens before one has asked for the root
Listening == IF g_root_provider THEN BOOLEAN ELSE {FALSE}

TodoRunning == pc = "todo" /\ ~aborted /\ ~ub

\* The client holds at most MaxProviders element providers: of the ones it is
\* handed it keeps some or none, releasing held ones to make room.
Acquire(held, got) ==
  {held} \cup {h \in SUBSET (held \cup got) : h \cap got # {} /\ Cardinality(h) <= MaxProviders}

ClientGot(ret) == IF ret \in {NullPtr, 0} THEN {} ELSE {ret}

EventIds(raised) == {raised[i].id : i \in DOMAIN raised}

\* What a read past the end of a vector may yield, as far as valid_id and
\* the callers tell ids apart: zero, a valid id, the invalid id.
GarbageIds == {0, 1, Todo_InvalidId}

\* The outcomes of a handler F, given what a read past the end of a vector
\* yields, when the handler does read past the end.
Outcomes(F(_)) ==
  UNION {IF m.ub THEN {F(garbage) : garbage \in GarbageIds} ELSE {m} : m \in {F(0)}}

\* what main_update leaves behind; the client may keep the provider that
\* comes with the focus-changed event
CommitTodo(m) ==
  /\ Commit(m)
  /\ show_content' = m.show_content
  /\ pc' = IF m.destroyed THEN "quit" ELSE pc
  /\ client_ids' \in Acquire(client_ids, {id \in EventIds(m.raised) : Todo_valid_id(id)})

Todo_WM_GETOBJECT ==
  /\ TodoRunning
  /\ ~g_root_provider
  /\ g_root_provider' = TRUE
  /\ \E m \in Outcomes(LAMBDA garbage : main_update(M, FALSE, garbage)) :
          CommitTodo(m) /\ UNCHANGED <<last, range>>

KeysDown == {k \in Keys : g_ui.inputs.keys_per_vk[k].is_down}

\* WM_KEYDOWN / WM_KEYUP: every key is polled, then main_update runs
KeyMessage(uMsg, this_key, keys, listening) ==
  LET inputs == [updated |-> TRUE,
                 keys_per_vk |-> [k \in Keys |-> ui_update(g_ui.inputs.keys_per_vk[k], k \in keys)],
                 shift_key |-> ui_update(g_ui.inputs.shift_key, "VK_SHIFT" \in keys)]
      m0 == [M EXCEPT !.ui.inputs = inputs]
  IN \E m \in Outcomes(LAMBDA garbage : main_update(m0, listening, garbage)) :
          /\ CommitTodo(m)
          /\ UNCHANGED <<last, range>>
          /\ UNCHANGED g_root_provider

Todo_WM_KEYDOWN(this_key, listening) ==
  /\ TodoRunning
  /\ this_key \notin KeysDown
  /\ Cardinality(KeysDown \cup {this_key}) <= MaxKeysDown
  /\ KeyMessage("WM_KEYDOWN", this_key, KeysDown \cup {this_key}, listening)

Todo_WM_KEYUP(this_key, listening) ==
  /\ TodoRunning
  /\ this_key \in KeysDown
  /\ KeyMessage("WM_KEYUP", this_key, KeysDown \ {this_key}, listening)

Todo_ClientRootNavigate(direction) ==
  /\ TodoRunning
  /\ g_root_provider
  /\ \E m \in Outcomes(LAMBDA garbage : Todo_RootNavigate(M, direction, garbage)) :
          /\ Commit(m)
          /\ client_ids' \in Acquire(client_ids, ClientGot(m.ret))
          /\ UNCHANGED <<last, range>>
  /\ UNCHANGED <<g_root_provider, show_content, pc>>

Todo_ClientNavigate(id, direction) ==
  /\ TodoRunning
  /\ id \in client_ids
  /\ \E m \in Outcomes(LAMBDA garbage : Todo_Navigate(M, id, direction, garbage)) :
          /\ Commit(m)
          /\ client_ids' \in Acquire(client_ids, IF m.aborted THEN {} ELSE ClientGot(m.ret))
          /\ UNCHANGED <<last, range>>
  /\ UNCHANGED <<g_root_provider, show_content, pc>>

Todo_ClientSetFocus(id, listening) ==
  /\ TodoRunning
  /\ id \in client_ids
  /\ \E m \in Outcomes(LAMBDA garbage : main_update(ui_update_focus(M, id), listening, garbage)) :
          CommitTodo(m) /\ UNCHANGED <<last, range>>
  /\ UNCHANGED g_root_provider

Todo_ClientGetPropertyValue(id, propertyId) ==
  /\ TodoRunning
  /\ id \in client_ids
  /\ \E m \in Outcomes(LAMBDA garbage : Todo_GetPropertyValue(M, id, propertyId, garbage)) :
          /\ Commit(m)
          /\ UNCHANGED <<last, range>>
  /\ UNCHANGED <<g_root_provider, show_content, pc, client_ids>>

NextTodoApp ==
  \/ Todo_WM_GETOBJECT
  \/ \E k \in TypedKeys, listening \in Listening : Todo_WM_KEYDOWN(k, listening)
  \/ \E k \in TypedKeys, listening \in Listening : Todo_WM_KEYUP(k, listening)
  \/ \E d \in Directions : Todo_ClientRootNavigate(d)
  \/ \E id \in TodoIds, d \in Directions : Todo_ClientNavigate(id, d)
  \/ \E id \in TodoIds, listening \in Listening : Todo_ClientSetFocus(id, listening)
  \/ \E id \in TodoIds, p \in Properties : Todo_ClientGetPropertyValue(id, p)

SpecTodoApp == InitTodoApp /\ [][NextTodoApp]_vars

----------------------------------------------------------------------------
(* SRFirst: the keyboard, activation and hit testing *)

ui_focus_next(m, listening, root_provider) ==
  Then(ui_get_index(m, m.ui.focused_id), LAMBDA m1 :
    IF m1.aborted THEN m1
    ELSE IF m1.ret >= size(m1.ui.node_ids) - 1 THEN m1
    ELSE ui_set_focus_to(m1, At(m1.ui.node_ids, m1.ret + 1), listening, root_provider))

ui_focus_prev(m, listening, root_provider) ==
  Then(ui_get_index(m, m.ui.focused_id), LAMBDA m1 :
    IF m1.aborted THEN m1
    ELSE IF m1.ret <= 0 THEN m1
    ELSE ui_set_focus_to(m1, At(m1.ui.node_ids, m1.ret - 1), listening, root_provider))

\* bool ui_activate(UiTree::Id); the callback called is appended to `called`,
\* and the one that sends WM_CLOSE destroys the window
ui_activate(m, id, listening, root_provider) ==
  IF m.aborted THEN m
  ELSE IF id \notin DOMAIN m.ui.actions THEN Ret(m, FALSE)
  ELSE
  Then([m EXCEPT !.called = Append(@, m.ui.actions[id]),
                 !.destroyed = @ \/ m.ui.actions[id] = "WM_CLOSE"], LAMBDA m1 :
  Then(IF listening /\ root_provider
       THEN Then(create_simple_element_provider(m1, m1.ui.focused_id), LAMBDA m2 :
              IF m2.aborted THEN m2
              ELSE [m2 EXCEPT !.raised = Append(@, [event |-> "Invoked", id |-> m2.ret])])
       ELSE m1, LAMBDA m3 :
    IF m3.aborted THEN m3 ELSE Ret(m3, TRUE)))

\* void ui_activate(): what ui_activate(id) returns is dropped
ui_activate_focused(m, listening, root_provider) ==
  IF m.ui.focused_id # 0
  THEN Ret(ui_activate(m, m.ui.focused_id, listening, root_provider), "void")
  ELSE Ret(m, "void")

\* AnyElementInvokeProvider::Invoke
Invoke(m, id, listening, root_provider) ==
  Then(ui_activate(m, id, listening, root_provider), LAMBDA m1 :
    IF m1.aborted THEN m1
    ELSE IF ~m1.ret THEN Abort(m1)
    ELSE Ret(m1, "S_OK"))

\* the for loop of RootProvider::ElementProviderFromPoint; x and y are
\* relative to the client area
RECURSIVE FromPointLoop(_, _, _, _, _, _)
FromPointLoop(ui, x, y, i, depth, id) ==
  IF ~(i < size(ui.node_rect)) THEN id
  ELSE LET d == At(ui.node_depth, i)
           r == At(ui.node_rect, i)
       IN IF d < depth \/ y < r.top \/ y >= r.bottom \/ x < r.left \/ x >= r.right
          THEN FromPointLoop(ui, x, y, i + 1, depth, id)
          ELSE FromPointLoop(ui, x, y, i + 1, d, At(ui.node_ids, i))

\* RootProvider::ElementProviderFromPoint; LeftTop is where ClientToScreen
\* puts the client area's corner, and 0 stands for the root provider itself
ElementProviderFromPoint(m, x, y, LeftTop) ==
  LET id == FromPointLoop(m.ui, x - LeftTop.x, y - LeftTop.y, 0, 0, 0)
  IN IF id # 0 THEN create_element_provider(m, m.ui.focused_id)
     ELSE Ret(m, 0)

\* main_window_proc, WM_KEYDOWN of a key that was up
OnKeyDown(m, wParam, shift, listening, root_provider) ==
  CASE wParam = "VK_TAB" -> IF shift THEN ui_focus_prev(m, listening, root_provider)
                            ELSE ui_focus_next(m, listening, root_provider)
    [] wParam = "VK_DOWN" -> ui_focus_next(m, listening, root_provider)
    [] wParam = "VK_UP" -> ui_focus_prev(m, listening, root_provider)
    [] wParam = "VK_RETURN" -> ui_activate_focused(m, listening, root_provider)
    [] OTHER -> m

----------------------------------------------------------------------------
(* TodoApp: hit testing *)

contains(r, p) ==
  ~(p.y < r.top) /\ ~(p.y >= r.bottom) /\ ~(p.x < r.left) /\ ~(p.x >= r.right)

\* x and y are whole numbers of pixels, which std::round leaves as they are
ui_point_from_screen_point(x, y, LeftTop) == [x |-> x - LeftTop.x, y |-> y - LeftTop.y]

\* a loop that keeps the first of the equally deep nodes
RECURSIVE SearchLoopFirst(_, _, _, _, _)
SearchLoopFirst(ui, pt, i, depth, id) ==
  IF ~(i < size(ui.node_rect)) THEN id
  ELSE LET d == At(ui.node_depth, i)
       IN IF (d <= depth /\ id # 0) \/ ~contains(At(ui.node_rect, i), pt)
          THEN SearchLoopFirst(ui, pt, i + 1, depth, id)
          ELSE SearchLoopFirst(ui, pt, i + 1, d, At(ui.node_ids, i))

\* the for loop of ui_search_deepest_node_containing
RECURSIVE SearchLoop(_, _, _, _, _)
SearchLoop(ui, pt, i, depth, id) ==
  IF ~(i < size(ui.node_rect)) THEN id
  ELSE LET d == At(ui.node_depth, i)
       IN IF d < depth \/ ~contains(At(ui.node_rect, i), pt)
          THEN SearchLoop(ui, pt, i + 1, depth, id)
          ELSE SearchLoop(ui, pt, i + 1, d, At(ui.node_ids, i))

ui_search_deepest_node_containing(ui, pt) == SearchLoop(ui, pt, 0, 0, 0)

\* RootProvider::ElementProviderFromPoint of TodoApp; 0 stands for the root
\* provider itself
Todo_ElementProviderFromPoint(m, x, y, LeftTop) ==
  Ret(m, ui_search_deepest_node_containing(m.ui, ui_point_from_screen_point(x, y, LeftTop)))

----------------------------------------------------------------------------
(* Both programs under keyboard input, activation and hit testing *)

\* screen points around the corners of the rectangle the nodes of TodoApp get
ScreenPoints(LeftTop) ==
  {[x |-> LeftTop.x + p[1], y |-> LeftTop.y + p[2]] :
     p \in {<<-1, 0>>, <<0, -1>>, <<0, 0>>, <<199, 199>>, <<200, 199>>, <<199, 200>>}}

\* TodoApp as it starts, or SRFirst when ui_describe has returned
InitInput ==
  \/ InitTodoApp
  \/ /\ g_ui = Described.ui
     /\ fingers = Described.fingers
     /\ g_root_provider = FALSE
     /\ show_content = FALSE
     /\ client_ids = {}
     /\ aborted = FALSE
     /\ ub = FALSE
     /\ pc = "run"
     /\ last = NoRequest
     /\ range = NullRange

WM_KEYDOWN(wParam, shift, listening) ==
  /\ ~aborted /\ pc = "run"
  /\ \E m \in {OnKeyDown(M, wParam, shift, listening, g_root_provider)} :
        /\ Commit(m)
        /\ pc' = IF m.destroyed THEN "quit" ELSE pc
        /\ last' = [op |-> "WM_KEYDOWN", called |-> m.called]
  /\ UNCHANGED <<g_root_provider, show_content, client_ids, range>>

\* the client holds the invoke provider of a button: GetPatternProvider
\* hands one out for no other type of element
ClientInvoke(id, listening) ==
  /\ ~aborted /\ pc = "run" /\ g_root_provider
  /\ exists_id(M, id)
  /\ At(g_ui.node_type, LinearScan(g_ui.node_ids, id)) = kButton
  /\ \E m \in {Invoke(M, id, listening, g_root_provider)} :
        /\ Commit(m)
        /\ pc' = IF m.destroyed THEN "quit" ELSE pc
        /\ last' = [op |-> "Invoke", called |-> m.called]
  /\ UNCHANGED <<g_root_provider, show_content, client_ids, range>>

ClientElementProviderFromPoint(x, y, LeftTop) ==
  /\ ~aborted /\ pc = "run" /\ g_root_provider
  /\ \E m \in {ElementProviderFromPoint(M, x, y, LeftTop)} :
        /\ Commit(m)
        /\ last' = [op |-> "ElementProviderFromPoint", ret |-> m.ret]
  /\ UNCHANGED <<g_root_provider, show_content, client_ids, pc, range>>

Todo_ClientElementProviderFromPoint(x, y, LeftTop) ==
  /\ TodoRunning
  /\ g_root_provider
  /\ \E m \in {Todo_ElementProviderFromPoint(M, x, y, LeftTop)} :
        /\ Commit(m)
        /\ client_ids' \in Acquire(client_ids, ClientGot(m.ret))
        /\ last' = [op |-> "ElementProviderFromPoint", ret |-> m.ret]
  /\ UNCHANGED <<g_root_provider, show_content, pc, range>>

NextInput ==
  \/ WM_GETOBJECT
  \/ \E wParam \in Keys \ {"VK_SHIFT"}, shift \in BOOLEAN, listening \in Listening :
       WM_KEYDOWN(wParam, shift, listening)
  \/ \E id \in NodeIds(g_ui), listening \in Listening : ClientInvoke(id, listening)
  \/ \E LeftTop \in LeftTops : \E p \in ScreenPoints(LeftTop) :
       ClientElementProviderFromPoint(p.x, p.y, LeftTop)
  \/ Todo_WM_GETOBJECT
  \/ \E k \in TypedKeys, listening \in Listening : Todo_WM_KEYDOWN(k, listening)
  \/ \E k \in TypedKeys, listening \in Listening : Todo_WM_KEYUP(k, listening)
  \/ \E LeftTop \in LeftTops : \E p \in ScreenPoints(LeftTop) :
       Todo_ClientElementProviderFromPoint(p.x, p.y, LeftTop)

SpecInput == InitInput /\ [][NextInput]_vars

----------------------------------------------------------------------------
(* TodoApp: describe passes of any shape, one builder call at a time. Of a  *)
(* pass `last` keeps the panes that were begun and not ended, innermost     *)
(* last.                                                                    *)

\* the names a pass declares its elements with
PassNames == {Main, Done}

InitPasses ==
  /\ g_ui = TodoUiInit
  /\ fingers = FingersInit
  /\ g_root_provider = FALSE
  /\ show_content = FALSE
  /\ client_ids = {}
  /\ aborted = FALSE
  /\ ub = FALSE
  /\ pc = "idle"
  /\ last = [op |-> "none", open |-> <<>>]
  /\ range = NullRange

InPass == pc = "pass" /\ ~aborted /\ ~ub

PassBegin ==
  /\ pc = "idle" /\ ~aborted /\ ~ub
  /\ Commit(ui_begin(M))
  /\ pc' = "pass"
  /\ last' = [op |-> "ui_begin", open |-> <<>>]
  /\ UNCHANGED <<g_root_provider, show_content, client_ids, range>>

PassPaneBegin(name) ==
  /\ InPass
  /\ size(g_ui.node_ids) < MaxNodes
  /\ \E m \in {ui_pane_begin(M, name)} :
        /\ Commit(m)
        /\ last' = [op |-> "ui_pane_begin",
                    open |-> IF m.aborted THEN last.open ELSE Append(last.open, m.ret)]
  /\ UNCHANGED <<g_root_provider, show_content, client_ids, pc, range>>

PassTextParagraph(name) ==
  /\ InPass
  /\ size(g_ui.node_ids) < MaxNodes
  /\ Commit(Todo_ui_text_paragraph(M, name))
  /\ last' = [op |-> "ui_text_paragraph", open |-> last.open]
  /\ UNCHANGED <<g_root_provider, show_content, client_ids, pc, range>>

PassButton(name) ==
  /\ InPass
  /\ size(g_ui.node_ids) < MaxNodes
  /\ Commit(Todo_ui_button(M, name, <<>>))
  /\ last' = [op |-> "ui_button", open |-> last.open]
  /\ UNCHANGED <<g_root_provider, show_content, client_ids, pc, range>>

PassPaneEnd(pane) ==
  /\ InPass
  /\ \E m \in {ui_pane_end(M, pane)} :
        /\ Commit(m)
        /\ last' = [op |-> "ui_pane_end",
                    open |-> IF m.aborted THEN last.open
                             ELSE SubSeq(last.open, 1, Len(last.open) - 1)]
  /\ UNCHANGED <<g_root_provider, show_content, client_ids, pc, range>>

PassEnd ==
  /\ InPass
  /\ \E m \in {ui_end(M, FALSE, 0)} :
        /\ Commit(m)
        /\ pc' = IF m.aborted THEN pc ELSE "idle"
        /\ last' = [op |-> "ui_end", open |-> last.open]
  /\ UNCHANGED <<g_root_provider, show_content, client_ids, range>>

NextPasses ==
  \/ PassBegin
  \/ \E name \in PassNames : PassPaneBegin(name)
  \/ \E name \in PassNames : PassTextParagraph(name)
  \/ \E name \in PassNames : PassButton(name)
  \/ \E pane \in NodeIds(g_ui) \cup {0} : PassPaneEnd(pane)
  \/ PassEnd

SpecPasses == InitPasses /\ [][NextPasses]_vars

----------------------------------------------------------------------------
(* Both programs *)

Init == InitSRFirst \/ InitTodoApp

Next == NextSRFirst \/ NextTodoApp

Spec == Init /\ [][Next]_vars

\* a describe pass has completed: ui_describe returned, or main_update did
PassCompleted == ~aborted /\ ~ub /\ pc \in {"run", "todo", "quit"}

----------------------------------------------------------------------------
(* Properties of the node store *)

RECURSIVE IsDescendant(_, _, _)
\* node k reaches node i by following parent ids (fuel bounds the walk)
IsDescendant(ui, i, k) ==
  /\ At(ui.node_parent, k) # 0
  /\ \E p \in Indexes(ui.node_ids) :
       /\ p < k
       /\ At(ui.node_ids, p) = At(ui.node_parent, k)
       /\ (p = i \/ IsDescendant(ui, i, p))

PreOrder(ui) ==
  \A i \in Indexes(ui.node_ids) :
    LET d == At(ui.node_depth, i)
    IN /\ d >= 0
       /\ d = 0 => At(ui.node_parent, i) = 0
       /\ d > 0 => \E p \in 0 .. (i - 1) :
                     /\ At(ui.node_ids, p) = At(ui.node_parent, i)
                     /\ At(ui.node_depth, p) = d - 1
                     /\ \A k \in (p + 1) .. (i - 1) : At(ui.node_depth, k) >= d

ContiguousDescendants(ui) ==
  \A i, k \in Indexes(ui.node_ids) :
    IsDescendant(ui, i, k) <=>
      (i < k /\ \A j \in (i + 1) .. k : At(ui.node_depth, j) > At(ui.node_depth, i))

\* C1: after every describe pass that completes without aborting, in both
\* programs, every node of depth 0 has parent 0, every deeper node has as
\* parent the nearest earlier node one level up with nothing shallower in
\* between, and the descendants of a node are the contiguous block after it.
C1_PreOrder == PassCompleted => PreOrder(g_ui) /\ ContiguousDescendants(g_ui)

\* C1 witness: a completed pass left a three-level tree
C1_Witness ==
  /\ PassCompleted
  /\ size(g_ui.node_ids) = 3
  /\ At(g_ui.node_depth, 2) = 2

IdsOf(node_ids) == {At(node_ids, i) : i \in Indexes(node_ids)}

NoDuplicateNoSentinel(node_ids, limit) ==
  /\ \A i, j \in Indexes(node_ids) : At(node_ids, i) = At(node_ids, j) => i = j
  /\ \A i \in Indexes(node_ids) : At(node_ids, i) # 0 /\ At(node_ids, i) # limit - 1

\* what one call of ui_named_element may do to node_ids: append one fresh id
\* that is no sentinel, or abort and append nothing
AppendsFreshOrAborts(before, m, limit) ==
  IF m.aborted THEN m.ui.node_ids = before
  ELSE /\ m.ui.node_ids = Append(before, m.ret)
       /\ m.ret # 0 /\ m.ret # limit - 1
       /\ m.ret \notin IdsOf(before)

\* C2: in every reachable state node_ids holds no duplicate and no sentinel,
\* and a call of ui_named_element made in that state, for any name and at
\* the current depth, either appends a fresh non-sentinel id or aborts with
\* nothing appended.
C2_FreshIds ==
  /\ pc \in {"describe", "run"} =>
       /\ NoDuplicateNoSentinel(g_ui.node_ids, IdLimit)
       /\ ~aborted => \A e \in DescribeInputs :
            AppendsFreshOrAborts(g_ui.node_ids, ui_named_element(M, e.name, e.type), IdLimit)
  /\ pc \in {"todo", "quit"} =>
       /\ NoDuplicateNoSentinel(g_ui.node_ids, TodoIdLimit)
       /\ ~aborted /\ ~ub => \A e \in DescribeInputs :
            AppendsFreshOrAborts(g_ui.node_ids, Todo_ui_named_element(M, e.name, kText, <<>>),
                                 TodoIdLimit)

\* C2 witness: ui_describe was stopped by a generated id that is a sentinel
\* or is registered already
C2_Witness ==
  /\ pc = "describe" /\ aborted
  /\ size(g_ui.node_ids) = 2

----------------------------------------------------------------------------
(* TodoApp: lookups and focus across rebuilds *)

TodoAtRest == pc = "todo" /\ ~aborted /\ ~ub

\* C3: after any sequence of describe passes and lookups, ui_get_index(id)
\* returns the index a linear scan of the current node_ids finds when id is
\* in the node store, and aborts when it is not; the finger cache changes
\* neither.
C3_GetIndexIsLinearScan ==
  TodoAtRest =>
    \A id \in TodoIds : Todo_valid_id(id) =>
      \E m \in {Todo_ui_get_index(M, id)} :
         IF id \in IdsOf(g_ui.node_ids)
         THEN ~m.aborted /\ m.ret = LinearScan(g_ui.node_ids, id)
         ELSE m.aborted

NoButtonDown == \A i \in Indexes(g_ui.buttons.state) : ~At(g_ui.buttons.state, i).is_down

\* C4: a rebuild of TodoApp in which the focused id is no longer among
\* node_ids completes with the focus reset to 0, and a rebuild in which it
\* still is among node_ids leaves focus.id as it was. The focused id is the
\* one a client's SetFocus just assigned, or the one focused already; the
\* rebuild is one without new input and with no button held, so that
\* nothing but the rebuild itself acts on the focus.
C4_FocusAcrossRebuild ==
  TodoAtRest /\ NoButtonDown =>
    \A id \in client_ids \cup {g_ui.focus.id} :
      \E m \in {main_update_pass(ui_update_focus(M, id), FALSE, 0)} :
         IF id \in IdsOf(m.ui.node_ids)
         THEN ~m.aborted /\ m.ui.focus.id = id
         ELSE ~m.aborted /\ m.ui.focus.id = 0

----------------------------------------------------------------------------
(* Navigation over the tree, both programs *)

SRAtRest == pc = "run" /\ ~aborted

IndexOf(ui, id) == FindFwd(ui.node_ids, 0, id)

ParentOf(ui, id) == At(ui.node_parent, IndexOf(ui, id))

\* going forward (step 1) or backward (step -1) from index i, a node
\* shallower than node i is met before any node of the depth of node i
RECURSIVE ShallowerMetFirst(_, _, _, _)
ShallowerMetFirst(ui, i, k, step) ==
  /\ k \in Indexes(ui.node_ids)
  /\ At(ui.node_depth, k) # At(ui.node_depth, i)
  /\ (At(ui.node_depth, k) < At(ui.node_depth, i) \/ ShallowerMetFirst(ui, i, k + step, step))

\* next_sibling / prev_sibling of the program whose state this is; none is
\* NullPtr
Sibling(m, n, direction) ==
  IF pc = "run" THEN Navigate(m, n, direction)
  ELSE LET r == IF direction = "NextSibling" THEN ui_next_sibling(m, n, 0)
                ELSE ui_prev_sibling(m, n, 0)
       IN IF r.ret = Todo_InvalidId THEN Ret(r, NullPtr) ELSE r

SiblingSymmetry(n, there, back, step) ==
  LET r == Sibling(M, n, there)
      i == IndexOf(g_ui, n)
  IN /\ ~Halted(r)
     /\ r.ret # NullPtr =>
          /\ r.ret \in IdsOf(g_ui.node_ids)
          /\ ParentOf(g_ui, r.ret) = ParentOf(g_ui, n)
          /\ LET q == Sibling(r, r.ret, back) IN ~Halted(q) /\ q.ret = n
     /\ ShallowerMetFirst(g_ui, i, i + step, step) => r.ret = NullPtr

\* C5: in both programs, for every node n, when next_sibling(n) returns m
\* then m has the parent of n and prev_sibling(m) returns n (and the same
\* with the directions exchanged), and either returns none when a node
\* shallower than n comes before any node of the depth of n.
C5_SiblingSymmetry ==
  SRAtRest \/ TodoAtRest =>
    \A n \in IdsOf(g_ui.node_ids) :
      /\ SiblingSymmetry(n, "NextSibling", "PreviousSibling", 1)
      /\ SiblingSymmetry(n, "PreviousSibling", "NextSibling", -1)

\* the ids whose parent_id is p, in build order
RECURSIVE ChildrenFrom(_, _, _)
ChildrenFrom(ui, p, i) ==
  IF i >= size(ui.node_ids) THEN <<>>
  ELSE (IF At(ui.node_parent, i) = p THEN <<At(ui.node_ids, i)>> ELSE <<>>)
       \o ChildrenFrom(ui, p, i + 1)

Children(ui, p) == ChildrenFrom(ui, p, 0)

\* first_child / last_child of the program whose state this is; p = 0 is the
\* root of SRFirst
Child(m, p, direction, garbage) ==
  IF pc = "run"
  THEN IF p = 0 THEN RootNavigate(m, direction) ELSE Navigate(m, p, direction)
  ELSE LET r == IF direction = "FirstChild" THEN ui_first_child(m, p, garbage)
                ELSE ui_last_child(m, p, garbage)
       IN IF r.ret = Todo_InvalidId THEN Ret(r, NullPtr) ELSE r

\* first_child(p), then next_sibling until none: the ids visited (fuel ends
\* a walk that does not end by itself)
RECURSIVE WalkSiblings(_, _, _)
WalkSiblings(m, id, fuel) ==
  IF id = NullPtr \/ fuel = 0 THEN <<>>
  ELSE LET r == Sibling(m, id, "NextSibling")
       IN IF Halted(r) THEN <<id, NullPtr>>
          ELSE <<id>> \o WalkSiblings(r, r.ret, fuel - 1)

ChildrenWalk(p, garbage) ==
  LET first == Child(M, p, "FirstChild", garbage)
      last_child == Child(M, p, "LastChild", garbage)
      children == Children(g_ui, p)
  IN /\ ~Halted(first) /\ ~Halted(last_child)
     /\ WalkSiblings(first, first.ret, size(g_ui.node_ids) + 1) = children
     /\ last_child.ret = IF children = <<>> THEN NullPtr ELSE children[Len(children)]

\* C6: in both programs, for every node p, first_child(p) followed by
\* repeated next_sibling visits exactly the nodes whose parent_id is p, in
\* build order, the last one visited is last_child(p), and both return none
\* when p has no children.
C6_ChildrenWalk ==
  /\ SRAtRest => \A p \in IdsOf(g_ui.node_ids) \cup {0} : ChildrenWalk(p, 0)
  /\ TodoAtRest => \A p \in IdsOf(g_ui.node_ids), garbage \in TodoIds : ChildrenWalk(p, garbage)

----------------------------------------------------------------------------
(* Properties of the text-range engine *)

\* the client holds a range and the process is alive
TextAtRest == pc = "run" /\ ~aborted /\ range # NullRange

\* the ids of the proper ancestors of id
RECURSIVE AncestorsOf(_, _)
AncestorsOf(ui, id) ==
  IF ParentOf(ui, id) = 0 THEN {}
  ELSE {ParentOf(ui, id)} \cup AncestorsOf(ui, ParentOf(ui, id))

\* the elements that strictly enclose both a and b
CommonAncestors(ui, a, b) == AncestorsOf(ui, a) \cap AncestorsOf(ui, b)

\* the deepest of them
LeastCommonAncestor(ui, a, b) ==
  CHOOSE c \in CommonAncestors(ui, a, b) :
    \A d \in CommonAncestors(ui, a, b) :
      At(ui.node_depth, IndexOf(ui, d)) <= At(ui.node_depth, IndexOf(ui, c))

\* C7: GetEnclosingElement on a range returns the element of start.id when
\* start.id = end.id, and otherwise the element of the least common ancestor
\* of start.id and end.id (for a range from the first to the third paragraph
\* of the Document: the Document). Stated for the ranges whose endpoints
\* are one node or have a common ancestor.
C7_EnclosingElement ==
  pc = "run" /\ last.op = "GetEnclosingElement"
    /\ (range.start.id = range.end.id
          \/ CommonAncestors(g_ui, range.start.id, range.end.id) # {})
  => /\ ~aborted
     /\ last.ret = IF range.start.id = range.end.id THEN range.start.id
                   ELSE LeastCommonAncestor(g_ui, range.start.id, range.end.id)

\* the occurrences [index, pos] of needle inside one node's name, in the
\* nodes from start.id to end.id, that begin at or after start and do not
\* extend past end
Occurrences(ui, r, needle) ==
  LET s == IndexOf(ui, r.start.id)
      e == IndexOf(ui, r.end.id)
      In(i) == {p \in 0 .. (Len(At(ui.node_names, i)) - Len(needle)) :
                  /\ SubSeq(At(ui.node_names, i), p + 1, p + Len(needle)) = needle
                  /\ (i = s => p >= r.start.offset)
                  /\ (i = e => p + Len(needle) <= r.end.offset)}
  IN UNION {{[index |-> i, pos |-> p] : p \in In(i)} : i \in s .. e}

\* the range bounding the first of them in build order, or NullRange
FirstOccurrence(ui, r, needle) ==
  LET occ == Occurrences(ui, r, needle)
  IN IF occ = {} THEN NullRange
     ELSE LET o == CHOOSE a \in occ : \A b \in occ :
                     a.index < b.index \/ (a.index = b.index /\ a.pos <= b.pos)
          IN create_text_range(TextPoint(At(ui.node_ids, o.index), o.pos),
                               TextPoint(At(ui.node_ids, o.index), o.pos + Len(needle)))

\* C8: FindText(needle), backward and ignoreCase false, returns the range
\* bounding the first occurrence of needle inside a single node's name that
\* begins at or after start and does not extend past end (an occurrence that
\* ends exactly at end included), and none exactly when there is no such
\* occurrence.
C8_FindTextFirstOccurrence ==
  TextAtRest =>
    \A needle \in Needles :
      \E m \in {FindText(M, range, needle, FALSE, FALSE)} :
         /\ ~m.aborted
         /\ m.ret.hr = "S_OK"
         /\ m.ret.range = FirstOccurrence(g_ui, range, needle)

\* needle occurs in the name of a paragraph (a Text child) of Document d
InParagraphOf(ui, d, needle) ==
  \E i \in Indexes(ui.node_ids) :
    /\ At(ui.node_type, i) = kText
    /\ At(ui.node_parent, i) = d
    /\ \E p \in 0 .. (Len(At(ui.node_names, i)) - Len(needle)) :
         SubSeq(At(ui.node_names, i), p + 1, p + Len(needle)) = needle

\* C9: for a Document whose paragraphs contain the needle, FindText(needle)
\* on the range get_DocumentRange returns for the Document returns a range,
\* and GetText(-1) on that range is the needle.
C9_FindTextInDocument ==
  pc = "run" /\ ~aborted =>
    \A i \in Indexes(g_ui.node_ids), needle \in Needles :
      At(g_ui.node_type, i) = kDocument
        /\ InParagraphOf(g_ui, At(g_ui.node_ids, i), needle)
      => LET d == get_DocumentRange(M, At(g_ui.node_ids, i))
             f == FindText(d, d.ret, needle, FALSE, FALSE)
             t == GetText(f, f.ret.range, -1)
         IN /\ ~d.aborted /\ d.ret # NullRange
            /\ ~f.aborted /\ f.ret.range # NullRange
            /\ ~t.aborted /\ t.ret = needle

\* name[from, to), as much of it as the name has
Slice(name, from, to) ==
  SubSeq(name, from + 1, IF to < Len(name) THEN to ELSE Len(name))

\* the text of range r from the node at index i on
RECURSIVE TextFrom(_, _, _)
TextFrom(ui, r, i) ==
  LET s == IndexOf(ui, r.start.id)
      e == IndexOf(ui, r.end.id)
      name == At(ui.node_names, i)
      part == Slice(name, IF i = s THEN r.start.offset ELSE 0,
                          IF i = e THEN r.end.offset ELSE Len(name))
  IN IF i = e THEN part ELSE part \o TextFrom(ui, r, i + 1)

\* C10: GetText(max_len) on a range with start <= end returns the
\* concatenation, over the nodes from start.id to end.id in build order, of
\* the name of start.id from start.offset on, the full names in between and
\* the name of end.id up to end.offset, cut to its first max_len characters
\* when max_len >= 0 and uncut when max_len < 0.
C10_GetTextConcatenation ==
  TextAtRest /\ TextPointLeq(g_ui, range.start, range.end) =>
    \A max_len \in -1 .. MaxLength :
      LET m == GetText(M, range, max_len)
          whole == TextFrom(g_ui, range, IndexOf(g_ui, range.start.id))
      IN /\ ~m.aborted
         /\ m.ret = IF max_len >= 0 /\ max_len < Len(whole)
                    THEN SubSeq(whole, 1, max_len) ELSE whole

\* GetText has been called on a range that starts inside one node, ends
\* inside a node at least two further on, and holds more than MaxLength
\* characters
C10_Witness ==
  /\ TextAtRest /\ last.op = "GetText"
  /\ IndexOf(g_ui, range.end.id) - IndexOf(g_ui, range.start.id) >= 2
  /\ range.start.offset > 0
  /\ range.end.offset < Len(At(g_ui.node_names, IndexOf(g_ui, range.end.id)))
  /\ Len(GetText(M, range, -1).ret) > MaxLength

----------------------------------------------------------------------------
(* C11 .. C13: Move and the requests the provider leaves out *)

MoveAtRest == TextAtRest /\ ~ub

\* the nearest node of a type at or above id; 0 when there is none
RECURSIVE NearestOfType(_, _, _)
NearestOfType(ui, id, type) ==
  IF id = 0 THEN 0
  ELSE IF At(ui.node_type, IndexOf(ui, id)) = type THEN id
  ELSE NearestOfType(ui, ParentOf(ui, id), type)

OfType(ui, type) == {i \in Indexes(ui.node_ids) : At(ui.node_type, i) = type}

\* how many nodes of the type come before index i
Rank(ui, type, i) == Cardinality({k \in OfType(ui, type) : k < i})

\* the node of the type that is count nodes of the type after (before, when
\* count < 0) the node from, or the last (first) one when there are fewer
Landing(ui, type, from, count) ==
  LET n == Cardinality(OfType(ui, type))
      r == Rank(ui, type, IndexOf(ui, from)) + count
      clamped == IF r < 0 THEN 0 ELSE IF r > n - 1 THEN n - 1 ELSE r
  IN At(ui.node_ids, CHOOSE i \in OfType(ui, type) : Rank(ui, type, i) = clamped)

\* r spans the node id: from its start to the end of its name or of its text
Spans(ui, r, id) ==
  /\ r.start = TextPoint(id, 0)
  /\ r.end.id = id
  /\ r.end.offset \in {Len(At(ui.node_names, IndexOf(ui, id))),
                       At(ui.node_text_len, IndexOf(ui, id))}

TypeOfUnit(unit) == IF unit = "TextUnit_Paragraph" THEN kText ELSE kDocument

\* C11: Move(unit, count) with unit Paragraph (Document) on a non-degenerate
\* range whose start has a Text (Document) node at or above it succeeds and
\* leaves the range spanning the node |count| nodes of that type further on
\* in build order, forward when count > 0 and backward when count < 0, or
\* the last (first) node of that type when the node array ends before.
C11_MoveLands ==
  MoveAtRest /\ range.start # range.end =>
    \A unit \in {"TextUnit_Paragraph", "TextUnit_Document"}, count \in Counts \ {0} :
      LET from == NearestOfType(g_ui, range.start.id, TypeOfUnit(unit))
          m == Move(M, range, unit, count, PointerTo(0), FALSE)
      IN from # 0 =>
           /\ ~m.aborted
           /\ m.ret.hr = "S_OK"
           /\ Spans(g_ui, m.ret.range, Landing(g_ui, TypeOfUnit(unit), from, count))

\* the unit steps between the node a range started on and the node the moved
\* range starts on
StepsTaken(ui, before, after, unit) ==
  IF before.start = before.end \/ unit = "TextUnit_Page" THEN 0
  ELSE LET type == TypeOfUnit(unit)
       IN Rank(ui, type, IndexOf(ui, after.start.id))
            - Rank(ui, type, IndexOf(ui, NearestOfType(ui, before.start.id, type)))

\* C12: every successful Move(unit, count, out) leaves in out the signed
\* number of unit steps the range was moved by, which is 0 when the range
\* did not move.
C12_MoveReportsSteps ==
  MoveAtRest =>
    \A unit \in {"TextUnit_Paragraph", "TextUnit_Page", "TextUnit_Document"},
       count \in Counts \ {0}, held \in {0, 1} :
      LET m == Move(M, range, unit, count, PointerTo(held), FALSE)
      IN ~m.aborted /\ m.ret.hr = "S_OK" =>
           m.ret.out = PointerTo(StepsTaken(g_ui, range, m.ret.range, unit))

NotImplemented(m, r) == m.ret.hr = "E_NOTIMPL" /\ m.ret.range = r

\* C13: on every range, degenerate or not, FindText with backward or
\* ignoreCase set, Move and MoveEndpointByUnit with unit Character, Word,
\* Line or Format, FindAttribute, GetAttributeValue, AddToSelection,
\* RemoveFromSelection, Select and ScrollIntoView return E_NOTIMPL and leave
\* the start and the end of the range as they were.
C13_NotImplemented ==
  MoveAtRest =>
    /\ \A text \in Needles, backward \in BOOLEAN, ignoreCase \in BOOLEAN :
         backward \/ ignoreCase =>
           FindText(M, range, text, backward, ignoreCase).ret.hr = "E_NOTIMPL"
    /\ \A unit \in {"TextUnit_Character", "TextUnit_Word", "TextUnit_Line", "TextUnit_Format"},
          count \in Counts :
         /\ NotImplemented(Move(M, range, unit, count, PointerTo(0), FALSE), range)
    /\ \A method \in Methods \ {"MoveEndpointByRange"} :
         NotImplemented(Call(M, range, method), range)

----------------------------------------------------------------------------
(* C14: the focus-changed mark of TodoApp *)

FocusChangedFor(raised, id) ==
  \E i \in DOMAIN raised : raised[i] = [event |-> "AutomationFocusChanged", id |-> id]

\* C14: in TodoApp, when the focus at the moment ui_end raises notifications
\* differs from the focus at the end of the previous update cycle,
\* focus.updated is set at that moment, so that listening clients are sent a
\* focus-changed notification for the new focus; and assigning the focus the
\* id it already has changes no state. The update cycle is the one a client's
\* SetFocus starts.
C14_FocusChangeNotified ==
  TodoAtRest /\ g_root_provider =>
    /\ ui_update_focus(M, g_ui.focus.id) = M
    /\ \A id \in client_ids :
         \E m \in {main_update_pass(ui_update_focus(M, id), TRUE, 0)} :
           ~Halted(m) /\ m.ui.focus.id # g_ui.focus.id =>
             FocusChangedFor(m.raised, m.ui.focus.id)

----------------------------------------------------------------------------
(* C15: moving the focus with the keyboard *)

\* the process as WM_KEYDOWN of a key leaves it before main_update, no other
\* key being down
KeyPressed(key) ==
  [M EXCEPT !.ui.inputs =
     [updated |-> TRUE,
      keys_per_vk |-> [k \in Keys |-> ui_update(g_ui.inputs.keys_per_vk[k], k = key)],
      shift_key |-> ui_update(g_ui.inputs.shift_key, FALSE)]]

\* C15: with the focus on an existing node, move_focus_next (move_focus_prev)
\* sets the focus to the node right after (before) the focused node in the
\* current build order, and at the last (first) node leaves the focus as it is
\* and raises no focus-changed notification. In TodoApp the move is the
\* keyboard handling of ui_end, on VK_DOWN (VK_UP), after any sequence of
\* rebuilds.
C15_FocusMoves ==
  TodoAtRest /\ KeysDown = {} /\ NoButtonDown /\ g_ui.focus.id \in IdsOf(g_ui.node_ids) =>
    \A key \in {"VK_DOWN", "VK_UP"} :
      \E m \in {main_update(KeyPressed(key), g_root_provider, 0)} :
        LET j == IndexOf(m.ui, g_ui.focus.id) + (IF key = "VK_DOWN" THEN 1 ELSE -1)
        IN /\ ~Halted(m)
           /\ IF j \in Indexes(m.ui.node_ids)
              THEN m.ui.focus.id = At(m.ui.node_ids, j)
              ELSE /\ m.ui.focus.id = g_ui.focus.id
                   /\ \A i \in DOMAIN m.raised : m.raised[i].event # "AutomationFocusChanged"

----------------------------------------------------------------------------
(* C16 .. C18: hit testing, activation and the Action Table *)

InputAtRest == pc \in {"run", "todo"} /\ ~aborted /\ ~ub /\ g_root_provider

PointIn(r, x, y) == r.left <= x /\ x < r.right /\ r.top <= y /\ y < r.bottom

\* the id of the deepest node whose rectangle contains the point, the latest
\* in build order of the equally deep ones; 0, the root, when there is none
DeepestContaining(ui, x, y) ==
  LET hit == {i \in Indexes(ui.node_ids) : PointIn(At(ui.node_rect, i), x, y)}
  IN IF hit = {} THEN 0
     ELSE At(ui.node_ids,
             CHOOSE i \in hit : \A k \in hit :
               \/ At(ui.node_depth, k) < At(ui.node_depth, i)
               \/ At(ui.node_depth, k) = At(ui.node_depth, i) /\ k <= i)

C17_Activation ==
  pc = "run" /\ ~aborted /\ g_ui.focused_id # 0 =>
    \A listening \in BOOLEAN :
      /\ \A id \in {b \in NodeIds(g_ui) : At(g_ui.node_type, IndexOf(g_ui, b)) = kButton} :
           \E m \in {Invoke(M, id, listening, g_root_provider)} :
             IF id \in DOMAIN g_ui.actions
             THEN ~m.aborted /\ m.called = <<g_ui.actions[id]>> /\ m.ret = "S_OK"
             ELSE ~m.aborted /\ m.called = <<>> /\ m.ret # "S_OK"
      /\ \E m \in {ui_activate_focused(M, listening, g_root_provider)} :
           IF g_ui.focused_id \in DOMAIN g_ui.actions
           THEN ~m.aborted /\ m.called = <<g_ui.actions[g_ui.focused_id]>>
           ELSE ~m.aborted /\ m.called = <<>> /\ m.ret # "void"

\* the id ui_named_element gives a node of this name declared now
IdDeclared(ui, name) ==
  LET depth == ui.depth_for_adding_element
      parent_index == FindBwd(ui.node_depth, size(ui.node_ids), depth - 1)
  IN wyhash64(hash(name), IF depth = 0 THEN 0 ELSE At(ui.node_ids, parent_index))

\* C18: ui_button(text, action) called for an id that has an Action Table
\* entry already completes normally, replaces the callback of that entry
\* with the new action and leaves the table with exactly one entry for the
\* id.
C18_ButtonUpsert ==
  pc = "describe" /\ ~aborted =>
    \A e \in DescribeInputs, action \in {"CloseWindow", "WM_CLOSE"} :
      (g_ui.depth_for_adding_element = 0
         \/ FindBwd(g_ui.node_depth, size(g_ui.node_ids),
                    g_ui.depth_for_adding_element - 1) # -1)
      /\ IdDeclared(g_ui, e.name) \in DOMAIN g_ui.actions =>
        \E m \in {ui_button(M, e.name, action)} :
          /\ ~m.aborted
          /\ DOMAIN m.ui.actions = DOMAIN g_ui.actions
          /\ m.ui.actions[IdDeclared(g_ui, e.name)] = action

----------------------------------------------------------------------------
(* C19: pane scopes of TodoApp *)

\* C19: in a describe pass of TodoApp, ui_pane_end(pane) aborts unless pane
\* is the innermost pane begun and not yet ended, and otherwise leaves the
\* depth counter at that pane's own depth; ui_end aborts while a pane is
\* still open. So a pass whose ui_pane_begin / ui_pane_end calls are not
\* properly nested aborts.
C19_PaneScopes ==
  InPass =>
    /\ \A pane \in NodeIds(g_ui) \cup {0} :
         \E m \in {ui_pane_end(M, pane)} :
           IF last.open # <<>> /\ pane = last.open[Len(last.open)]
           THEN /\ ~m.aborted
                /\ m.ui.depth_for_adding_nodes = At(g_ui.node_depth, IndexOf(g_ui, pane))
                /\ m.ui.depth_for_adding_nodes = g_ui.depth_for_adding_nodes - 1
           ELSE m.aborted
    /\ last.open # <<>> => ui_end(M, FALSE, 0).aborted
    /\ g_ui.depth_for_adding_nodes = Len(last.open)

\* a pass was aborted by ui_pane_end of the outer of two open panes
C19_Witness ==
  /\ pc = "pass" /\ aborted
  /\ last.op = "ui_pane_end"
  /\ Len(last.open) = 2

----------------------------------------------------------------------------
(* C20: the text lengths of SRFirst *)

RECURSIVE SumOver(_, _)
SumOver(f, S) ==
  IF S = {} THEN 0
  ELSE LET x == CHOOSE y \in S : TRUE IN f[x] + SumOver(f, S \ {x})

ChildrenOf(ui, i) ==
  {c \in Indexes(ui.node_ids) : At(ui.node_parent, c) = At(ui.node_ids, i)}

TextLenSums(ui) ==
  \A i \in Indexes(ui.node_ids) :
    At(ui.node_text_len, i) =
      Len(At(ui.node_names, i))
        + SumOver([c \in ChildrenOf(ui, i) |-> At(ui.node_text_len, c)], ChildrenOf(ui, i))

\* C20: after every insertion ui_named_element makes during ui_describe, and
\* so when ui_describe has completed, node_text_len of every node is the
\* length of the node's own name plus the sum of node_text_len over the
\* node's children.
C20_TextLen ==
  pc \in {"describe", "run"} /\ ~aborted => TextLenSums(g_ui)

\* ui_describe has completed with a node that has a child and a grandchild
C20_Witness ==
  /\ pc = "run" /\ ~aborted
  /\ size(g_ui.node_ids) = 3
  /\ At(g_ui.node_depth, 2) = 2
  /\ At(g_ui.node_text_len, 0) > At(g_ui.node_text_len, 1)

----------------------------------------------------------------------------
(* C21: the offsets of the text points *)

\* the offset of p indexes the own name of the element p addresses
InOwnName(ui, p) ==
  /\ p.id \in NodeIds(ui)
  /\ 0 <= p.offset
  /\ p.offset <= Len(At(ui.node_names, IndexOf(ui, p.id)))

OffsetsInOwnName(ui, r) ==
  r = NullRange \/ (InOwnName(ui, r.start) /\ InOwnName(ui, r.end))

\* the ranges get_DocumentRange hands out
DocumentRangesInOwnName ==
  \A id \in NodeIds(g_ui) :
    \E m \in {get_DocumentRange(M, id)} :
      ~m.aborted => OffsetsInOwnName(m.ui, m.ret)

\* the ranges Clone, FindText, ExpandToEnclosingUnit and Move make of a range
\* whose offsets index the names
DerivedRangesInOwnName ==
  range # NullRange /\ OffsetsInOwnName(g_ui, range) =>
    /\ OffsetsInOwnName(g_ui, Clone(M, range, PointerTo(NullRange)).ret.range)
    /\ \A text \in Needles :
         \E m \in {FindText(M, range, text, FALSE, FALSE)} :
           ~m.aborted => OffsetsInOwnName(m.ui, m.ret.range)
    /\ \A unit \in TextUnits :
         \E m \in {ExpandToEnclosingUnit(M, range, unit)} :
           ~m.aborted => OffsetsInOwnName(m.ui, m.ret.range)
    /\ \A unit \in TextUnits, count \in Counts \ {0} :
         \E m \in {Move(M, range, unit, count, PointerTo(0), FALSE)} :
           ~m.aborted => OffsetsInOwnName(m.ui, m.ret.range)

\* C21: every text point that get_DocumentRange, Clone, FindText,
\* ExpandToEnclosingUnit or Move produces, after any sequence of these
\* operations, has an offset between 0 and the length of the own name of the
\* element it addresses.
C21_OffsetsInOwnName ==
  MoveAtRest => DocumentRangesInOwnName /\ DerivedRangesInOwnName

----------------------------------------------------------------------------
(* C22: ExpandToEnclosingUnit *)

\* C22: for every unit, ExpandToEnclosingUnit keeps start.id and end.id, sets
\* start.offset to 0 and end.offset to the length of the own name of end.id,
\* and applying it a second time, with any unit, changes nothing more.
C22_ExpandToEnclosingUnit ==
  MoveAtRest =>
    \A unit \in TextUnits :
      \E m \in {ExpandToEnclosingUnit(M, range, unit)} :
        /\ ~m.aborted
        /\ m.ret.hr = "S_OK"
        /\ m.ui = g_ui
        /\ m.ret.range.start = TextPoint(range.start.id, 0)
        /\ m.ret.range.end =
             TextPoint(range.end.id, Len(At(g_ui.node_names, IndexOf(g_ui, range.end.id))))
        /\ \A again \in TextUnits :
             \E n \in {ExpandToEnclosingUnit(m, m.ret.range, again)} :
               ~n.aborted /\ n.ret.hr = "S_OK" /\ n.ret.range = m.ret.range

\* a range that starts in one element and ends in an element with children
\* has been expanded
C22_Witness ==
  /\ MoveAtRest
  /\ last.op = "ExpandToEnclosingUnit"
  /\ range.start.id # range.end.id
  /\ range.start.offset = 0
  /\ range.end.offset = Len(At(g_ui.node_names, IndexOf(g_ui, range.end.id)))
  /\ range.end.offset < At(g_ui.node_text_len, IndexOf(g_ui, range.end.id))

----------------------------------------------------------------------------
(* C23: GetChildren *)

\* the indexes of the nodes from start.id to end.id, in build order
Visited(ui, r) ==
  [k \in 1 .. (IndexOf(ui, r.end.id) - IndexOf(ui, r.start.id) + 1) |->
     IndexOf(ui, r.start.id) + k - 1]

\* the ids of the nodes visited whose local offset is 0: start.offset for the
\* first node, 0 for every later one
WhollyInside(ui, r) ==
  LET ids == [k \in DOMAIN Visited(ui, r) |-> At(ui.node_ids, Visited(ui, r)[k])]
  IN IF r.start.offset = 0 THEN ids ELSE SubSeq(ids, 2, Len(ids))

\* C23: GetChildren returns, in build order, one reference for every node
\* visited from start.id to end.id whose local offset is 0, the reference of
\* that node's own element, and none for a node entered at another offset.
C23_GetChildren ==
  MoveAtRest =>
    \E m \in {GetChildren(M, range, PointerTo(<<>>))} :
      /\ ~m.aborted
      /\ m.ret.hr = "S_OK"
      /\ m.ret.out = PointerTo(WhollyInside(g_ui, range))

----------------------------------------------------------------------------
(* C24: GetBoundingRectangles *)

Inside(r, outer) ==
  /\ outer.left <= r.left /\ r.right <= outer.right
  /\ outer.top <= r.top /\ r.bottom <= outer.bottom

Inverted(r) == r.left > r.right \/ r.top > r.bottom

\* the greatest rectangle inside both a and b
Overlap(a, b) ==
  RECT(max(a.left, b.left), max(a.top, b.top), min(a.right, b.right), min(a.bottom, b.bottom))

\* the overlaps of the rectangles of the nodes at indexes from .. to with the
\* viewport, the inverted ones left out, each translated by LeftTop
RECURSIVE Overlaps(_, _, _, _, _)
Overlaps(ui, from, to, ClientRect, LeftTop) ==
  IF from > to THEN <<>>
  ELSE LET r == Overlap(At(ui.node_rect, from), ClientRect)
       IN (IF Inverted(r) THEN <<>> ELSE <<Translated(r, LeftTop)>>)
            \o Overlaps(ui, from + 1, to, ClientRect, LeftTop)

\* C24: the rectangles GetBoundingRectangles returns are, in build order, the
\* intersections of the rectangles of the nodes from start.id to end.id with
\* the viewport, translated by the screen offset of the window; before the
\* translation each lies inside the rectangle of its node and inside the
\* viewport, and an inverted intersection gives no rectangle.
C24_BoundingRectangles ==
  MoveAtRest =>
    \A ClientRect \in ClientRects, LeftTop \in LeftTops :
      \E m \in {GetBoundingRectangles(M, range, ClientRect, LeftTop, PointerTo(<<>>))} :
        /\ ~m.aborted
        /\ m.ret.hr = "S_OK"
        /\ m.ret.out = PointerTo(Overlaps(g_ui, IndexOf(g_ui, range.start.id),
                                          IndexOf(g_ui, range.end.id), ClientRect, LeftTop))
        /\ \A i \in Indexes(g_ui.node_ids) :
             \E r \in {intersection(At(g_ui.node_rect, i), ClientRect)} :
               ~Inverted(r) => Inside(r, At(g_ui.node_rect, i)) /\ Inside(r, ClientRect)

----------------------------------------------------------------------------
(* C25: a null output slot *)

\* the provider caches a request may find: empty, or holding the provider of
\* the focused element with the cache's and one client's reference
ProviderCaches == {NoProviders, [id \in {g_ui.focused_id} |-> 2]}

\* the query has returned an invalid-argument or invalid-pointer error and
\* has left the node store, the focus and the providers as they were
Rejected(before, m) ==
  /\ ~m.aborted /\ ~m.ub
  /\ m.ret.hr \in {"E_INVALIDARG", "E_POINTER"}
  /\ m.ret.out = <<>>
  /\ m.ui = before.ui
  /\ m.providers = before.providers

\* C25: a query called with a null output slot returns an invalid-argument or
\* invalid-pointer error and leaves the node store, the focus, the provider
\* cache and the reference counts of the providers as they were. The queries
\* are Clone, Move, GetChildren, GetBoundingRectangles and
\* get_ProviderOptions.
C25_NullOutputSlot ==
  MoveAtRest =>
    \A cache \in ProviderCaches :
      \E before \in {[M EXCEPT !.providers = cache]} :
        /\ \E m \in {Clone(before, range, <<>>)} :
             m.ret.hr \in {"E_INVALIDARG", "E_POINTER"} /\ m.ret.range = NullRange
               /\ m.ui = before.ui /\ m.providers = before.providers
        /\ \A unit \in TextUnits, count \in Counts :
             Rejected(before, Move(before, range, unit, count, <<>>, FALSE))
        /\ Rejected(before, GetChildren(before, range, <<>>))
        /\ \A ClientRect \in ClientRects, LeftTop \in LeftTops :
             Rejected(before, GetBoundingRectangles(before, range, ClientRect, LeftTop, <<>>))
        /\ Rejected(before, get_ProviderOptions(before, <<>>))

----------------------------------------------------------------------------
(* C26: what a re-entrant call would find *)

\* the parallel arrays of the node store have one length and no scope is open
CompleteSnapshot(ui) ==
  /\ Len(ui.node_names) = Len(ui.node_ids)
  /\ Len(ui.node_type) = Len(ui.node_ids)
  /\ Len(ui.node_depth) = Len(ui.node_ids)
  /\ Len(ui.node_parent) = Len(ui.node_ids)
  /\ Len(ui.node_rect) = Len(ui.node_ids)
  /\ ui.depth_for_adding_nodes = 0

LeavesComplete(m) == \A i \in DOMAIN m.left : CompleteSnapshot(m.left[i].ui)

\* the process as WM_KEYDOWN or WM_KEYUP leaves it before main_update, the
\* keys in `keys` being down
Polled(keys) ==
  [M EXCEPT !.ui.inputs =
     [updated |-> TRUE,
      keys_per_vk |-> [k \in Keys |-> ui_update(g_ui.inputs.keys_per_vk[k], k \in keys)],
      shift_key |-> ui_update(g_ui.inputs.shift_key, "VK_SHIFT" \in keys)]]

\* the sets of keys that are down after one more key message
KeysAfterMessage ==
  {keys \in {KeysDown \cup {k} : k \in TypedKeys} \cup {KeysDown \ {k} : k \in TypedKeys} :
     keys # KeysDown /\ Cardinality(keys) <= MaxKeysDown}

\* C26: in TodoApp, whenever control leaves main_update, by raising a
\* notification in ui_end or by DestroyWindow when the Close button is
\* activated, and whenever a client's SetFocus enters main_update, the node
\* store is a complete snapshot: its parallel arrays have equal length and
\* every scope that was opened is closed.
C26_CompleteSnapshots ==
  TodoAtRest =>
    /\ CompleteSnapshot(g_ui)
    /\ \A keys \in KeysAfterMessage, listening \in Listening :
         LeavesComplete(main_update(Polled(keys), listening, 0))
    /\ \A id \in client_ids, listening \in Listening :
         LeavesComplete(main_update(ui_update_focus(M, id), listening, 0))

----------------------------------------------------------------------------
(* C27: the least common ancestor inside GetEnclosingElement *)

\* the deepest node that is a or b or an ancestor of them and encloses both;
\* 0, the root, when there is none
DeepestEnclosing(ui, a, b) ==
  LET common == (AncestorsOf(ui, a) \cup {a}) \cap (AncestorsOf(ui, b) \cup {b})
  IN IF common = {} THEN 0
     ELSE CHOOSE c \in common :
            \A d \in common :
              At(ui.node_depth, IndexOf(ui, d)) <= At(ui.node_depth, IndexOf(ui, c))

\* C27: for any two distinct ids of the tree, at equal or different depths,
\* the computation of enclosing_id in GetEnclosingElement brings the deeper
\* id up to the depth of the other, then both up together until they are
\* one id; it ends, without exiting the process, on the deepest node that
\* encloses both, the root id 0 when no stored node does.
C27_LeastCommonAncestor ==
  TextAtRest =>
    \A a \in NodeIds(g_ui) : \A b \in NodeIds(g_ui) \ {a} :
      \E m \in {EnclosingId(M, a, b)} :
        ~m.aborted /\ m.ret = DeepestEnclosing(g_ui, a, b)

----------------------------------------------------------------------------
(* C28: main_update ends *)

\* the process at the moments main_update is called: by a key message, by a
\* client's SetFocus, by the first WM_GETOBJECT
UpdateEntries ==
  {Polled(keys) : keys \in KeysAfterMessage}
    \cup {ui_update_focus(M, id) : id \in client_ids}
    \cup (IF g_root_provider THEN {} ELSE {M})

\* the first pass asks for no refresh, or the second asks for none; a pass
\* that reads past the end of a vector counts as ended, whatever it read
AtMostTwoPasses(m0, listening) ==
  \E m1 \in {main_update_pass(m0, listening, 0)} :
    \/ Halted(m1)
    \/ ~m1.refresh
    \/ \E m2 \in {main_update_pass(m1, listening, 0)} :
         Halted(m2) \/ ~m2.refresh

\* C28: every call of main_update in TodoApp ends, after at most two describe
\* passes of its loop `while (content_need_refresh)`, whatever the keys, the
\* focus and the buttons held when it is called.
C28_MainUpdateEnds ==
  TodoAtRest =>
    \A m0 \in UpdateEntries, listening \in Listening :
      AtMostTwoPasses(m0, listening)

\* a key message after which main_update runs its second pass to the end
C28_Witness ==
  /\ TodoAtRest
  /\ \E keys \in KeysAfterMessage :
       \E m1 \in {main_update_pass(Polled(keys), FALSE, 0)} :
         /\ ~Halted(m1)
         /\ m1.refresh
         /\ ~Halted(main_update_pass(m1, FALSE, 0))

----------------------------------------------------------------------------
(* C29: when a button of TodoApp reports activated *)

\* the buttons that reported activated in a pass: the ones ui_end raises
\* Invoked for when clients listen
ActivatedIn(m) ==
  {m.raised[i].id : i \in {j \in DOMAIN m.raised : m.raised[j].event = "Invoked"}}

\* an update cycle without new input activates no button
NoActivationWithoutInput ==
  /\ \A id \in client_ids :
       ActivatedIn(main_update_pass(ui_update_focus(M, id), TRUE, 0)) = {}
  /\ \A keys \in KeysAfterMessage :
       \E m1 \in {main_update_pass(Polled(keys), TRUE, 0)} :
         ~Halted(m1) /\ m1.refresh =>
           ActivatedIn(main_update_pass([m1 EXCEPT !.raised = <<>>], TRUE, 0)) = {}

\* a key message activates the focused button only, and only when it is the
\* release of the Return key
ActivationOnReturnReleased ==
  \A keys \in KeysAfterMessage :
    \A id \in ActivatedIn(main_update_pass(Polled(keys), TRUE, 0)) :
      /\ id = g_ui.focus.id
      /\ "VK_RETURN" \in KeysDown
      /\ "VK_RETURN" \notin keys

\* C29: in TodoApp a button reports activated only in an update cycle that a
\* key message drives and in which the Return key went from held to released
\* while the button has the focus. A cycle without new input (a client's
\* SetFocus, the refresh pass of main_update) reports no button activated,
\* and neither does the focus leaving a button while Return is held.
C29_ActivationOnRelease ==
  TodoAtRest /\ g_root_provider =>
    NoActivationWithoutInput /\ ActivationOnReturnReleased

----------------------------------------------------------------------------
(* C30: the button table across ui_begin *)

\* the entries of a table, in order, whose button is among the nodes
RECURSIVE KeptEntries(_, _, _)
KeptEntries(buttons, nodes, i) ==
  IF i >= size(buttons.ids) THEN <<>>
  ELSE (IF At(buttons.ids, i) \in nodes
        THEN <<[id |-> At(buttons.ids, i), state |-> At(buttons.state, i)]>>
        ELSE <<>>)
       \o KeptEntries(buttons, nodes, i + 1)

Entries(buttons) == KeptEntries(buttons, {At(buttons.ids, i) : i \in Indexes(buttons.ids)}, 0)

\* C30: in TodoApp ui_begin neither aborts nor indexes out of range, and
\* after it the button table holds exactly the entries whose id was a node
\* of the previous snapshot, in their previous order and each with its own
\* state, whether no button, one button or several buttons disappeared.
C30_ButtonTable ==
  pc = "idle" /\ ~aborted /\ ~ub =>
    \E m \in {ui_begin(M)} :
      /\ ~m.aborted
      /\ ~m.ub
      /\ Len(m.ui.buttons.ids) = Len(m.ui.buttons.state)
      /\ Entries(m.ui.buttons) = KeptEntries(g_ui.buttons, NodeIds(g_ui), 0)

====
